---- MODULE Spec2Model ----
(***************************************************************************)
(* Model of the cpm timing substrate of wchoudhury/ride-platform.          *)
(*                                                                         *)
(* Part 1: the real-time timer cpm::TimerFD (cpm_lib/src/TimerFD.cpp):     *)
(* start negotiation over the systemTrigger reader, the periodic main loop *)
(* with missed-period recovery, the stop trigger, and the start / stop /   *)
(* start_async life cycle executed by concurrent threads.                  *)
(*                                                                         *)
(* uint64_t values are modelled as naturals below Modulus = 2^Width with   *)
(* the wrap-around arithmetic of the C++ unsigned type.                    *)
(***************************************************************************)
EXTENDS Integers, Sequences, FiniteSets, TLC

(* ------------------------------ bounds --------------------------------- *)

\* Bit width standing for the 64 bits of uint64_t.
Width == 6
\* Largest timer period of a configuration.
MaxPeriod == 3
\* Last instant of the clock.
MaxTime == 7
\* Largest ordinary start instant a SystemTrigger sample carries.
MaxStart == 4
\* Number of SystemTrigger samples published over a run.
MaxSamples == 2
\* Number of start / start_async / stop calls made by application threads.
MaxCalls == 3

(* --------------------------- unsigned arithmetic ----------------------- *)

Modulus == 2 ^ Width

\* cpm::TRIGGER_STOP_SYMBOL, the largest uint64_t value.
TRIGGER_STOP_SYMBOL == Modulus - 1

Add(a, b) == (a + b) % Modulus
Sub(a, b) == (a - b + Modulus) % Modulus
Mul(a, b) == (a * b) % Modulus

(* ------------------------------- state --------------------------------- *)

VARIABLES
    \* TimerFD configuration (constructor arguments)
    period_nanoseconds, offset_nanoseconds, wait_for_start, stop_signal,
    \* TimerFD members
    active, cancelled, start_point, start_point_initialized,
    m_update_callback, m_stop_callback, runner_thread, join_mutex, timer_fd,
    \* environment: DDS reader queue of systemTrigger samples, clock
    reader_system_trigger, now,
    \* threads: program counter, locals of start(), pending return of stop()
    pc, deadline, cbArg, stopRet, result, terminated,
    \* observations (history of what the program did)
    obs,
    \* TimerSimulated: the members and locals that TimerFD does not have
    sim,
    \* RTTAggregator: members, measurement worker, calling threads
    rtt,
    \* HLCCommunicator: members, planning task, callbacks in execution
    hlc,
    \* SimpleTimer: the members that its internal TimerFD does not have
    simple

cfgVars == <<period_nanoseconds, offset_nanoseconds, wait_for_start, stop_signal>>
memVars == <<active, cancelled, start_point, start_point_initialized,
             m_update_callback, m_stop_callback, runner_thread, join_mutex, timer_fd>>
envVars == <<reader_system_trigger, now>>
thrVars == <<pc, deadline, cbArg, stopRet, result, terminated>>
\* The state of the components other than the timers.
compVars == <<rtt, hlc, simple>>
vars == <<cfgVars, memVars, envVars, thrVars, obs, sim, compVars>>

\* Application threads and the worker thread owned by start_async.
AppThreads == {"A", "B"}
Worker == "W"
Threads == AppThreads \cup {Worker}

\* A sample whose info().valid() is false.
INVALID == 0 - 1
NoSample == 0 - 2

\* The ReadyStatus messages written by receiveStartTime are counted up to
\* this number.
MaxReady == 2

(* ------------------------------ helpers -------------------------------- *)

\* The valid samples of one take(), in order.
ValidSamples(q) == SelectSeq(q, LAMBDA v : v # INVALID)

\* receiveStartTime: the loop over take() returns at the first valid sample.
FirstValid(q) == IF ValidSamples(q) = <<>> THEN NoSample ELSE Head(ValidSamples(q))

\* Mutant of received_stop_signal: only the first sample of the take() is
\* compared with stop_signal.
received_stop_first(q, stop) == q # <<>> /\ q[1] # INVALID /\ q[1] = stop

\* received_stop_signal: some valid sample of the take() equals stop_signal.
received_stop_signal(q, stop) == \E i \in 1..Len(q) : q[i] # INVALID /\ q[i] = stop

\* Mutant of FirstDeadline: the first deadline is the start instant.
FirstDeadlineIsStart(S, O, P) == S

\* TimerFD::start, first deadline from start_point (uint64_t arithmetic).
FirstDeadline(S, O, P) ==
    IF Sub(S, O) % P = 0
    THEN S
    ELSE Add(Mul((Sub(S, O) \div P) + 1, P), O)

\* TimerFD::start, deadline += period_nanoseconds.
Advance(d, P) == Add(d, P)

\* TimerFD::start, whether the deadline d (already advanced) was missed at ct.
Missed(ct, d) == ct >= d

\* Mutant of Correct: the correction lacks the "+ 1" and can leave the
\* deadline at or before the clock value.
CorrectNoNextPeriod(ct, d, P) == Add(d, Mul(Sub(ct, d) \div P, P))

\* TimerFD::start, correction of a missed deadline d at clock value ct.
Correct(ct, d, P) == Add(d, Mul((Sub(ct, d) \div P) + 1, P))

\* createTimer: the timerfd expires at offset_fd + n * period, where a zero
\* offset is replaced by 1.
FdOffset(O) == IF O = 0 THEN 1 ELSE O
FdExpiresAt(t, O, P) == t % P = FdOffset(O) % P

\* std::thread::joinable of runner_thread.
Joinable == runner_thread # "none"

InNegotiation(t) == pc[t] \in {"neg_loop", "neg_write", "neg_take"}
InMainLoop(t) == pc[t] \in {"loop", "wait", "in_cb"}
\* Some thread executes the main loop of start() while the timer is active.
Running == active /\ \E t \in Threads : InNegotiation(t) \/ InMainLoop(t)

(* ------------------- state of the other components -------------------- *)

\* TimerSimulated after its constructor (TimerSimulated.cpp lines 18-37):
\* current_time is 0 and nothing was written. samples, got_valid and
\* got_new_deadline are the locals of handle_system_trigger, system_trigger and
\* in_first_loop those of start() on the thread that executes it; coordinator
\* holds the triggers that the simulation's coordinator will still publish.
sim0 ==
    [ current_time |-> 0,
      writer_ready_status |-> <<>>,
      samples |-> <<>>, got_valid |-> FALSE, got_new_deadline |-> FALSE,
      system_trigger |-> "NONE", in_first_loop |-> TRUE,
      coordinator |-> <<>> ]

\* A std::map or std::set without elements.
EmptyMap == [k \in {} |-> 0]

\* The threads that call the RTTAggregator's public methods.
RttCallers == {"A", "B"}

\* RTTAggregator after its constructor (RTTAggregator.cpp lines 8-11 and
\* 18-24): the seven containers are empty, run_rtt_thread is true and the
\* measurement worker has been created. wpc is the worker's position, round
\* the result of its measure_rtt(), cpc and op the position and the method
\* of each calling thread, now the value of cpm::get_time_ns(). The fields
\* from epoch on are observations: the number of restarts, the restart count
\* at the start of the round in progress, whether a round of an earlier
\* epoch was stored, the rounds closed, the calls made, per class the history
\* since its entry was created, and the all-time worst of evicted entries.
rtt0 ==
    [ current_best_rtt |-> EmptyMap, current_worst_rtt |-> EmptyMap,
      all_time_worst_rtt |-> EmptyMap, measure_count |-> EmptyMap,
      missed_answers |-> EmptyMap, last_msg_timestamp |-> EmptyMap,
      received_ids |-> {},
      rtt_values_mutex |-> "free",
      check_rtt_thread |-> "joinable", run_rtt_thread |-> TRUE,
      wpc |-> "loop", round |-> EmptyMap,
      cpc |-> [t \in RttCallers |-> "idle"], op |-> [t \in RttCallers |-> "none"],
      now |-> 0, terminated |-> FALSE,
      epoch |-> 0, roundEpoch |-> 0, staleStored |-> FALSE,
      rounds |-> 0, calls |-> 0, storedSinceRestart |-> FALSE,
      hist |-> EmptyMap, evictedWorst |-> EmptyMap ]

\* HLCCommunicator before start() (HLCCommunicator.hpp lines 70-100): no
\* callback is set, first_timestep is true, no VehicleStateList was received
\* and planning_future refers to no task (0). state is the coordinator's
\* state, cpc the callback that its thread executes ("free" for none),
\* executing the callbacks in execution as <<name, tick>>, tick the number of
\* period boundaries handled, stop_pending a STOP trigger or stop() call not
\* yet handled. The fields from stops on are observations: the on_stop
\* invocations, whether a callback began after on_stop had begun, the ticks
\* whose planning task was cancelled, the on_first_timestep invocations,
\* whether one began after an on_each_timestep invocation, the ticks of the
\* on_each_timestep invocations in the order they began, and whether each of
\* them began with a new VehicleStateList.
hlc0 ==
    [ state |-> "IDLE",
      first_timestep |-> TRUE, new_vehicleStateList |-> FALSE,
      planning_future |-> 0,
      on_first_timestep |-> FALSE, on_each_timestep |-> FALSE,
      on_cancel_timestep |-> FALSE, on_stop |-> FALSE,
      cpc |-> "free", executing |-> {}, tick |-> 0, stop_pending |-> FALSE,
      stops |-> 0, beganAfterStop |-> FALSE, cancelled |-> {},
      firsts |-> 0, firstLate |-> FALSE, started |-> <<>>, fresh |-> TRUE ]

(* -------------------------------- Init --------------------------------- *)

\* The observations kept of a run. With detail the tick sequence is recorded
\* (the callback count, the last two deadlines, the clock value after the last
\* callback, the warnings); without it only what the life cycle needs.
\* class is the class of the timer object of the run ("none" before its
\* construction). Of the ReadyStatus messages are kept, with detail: the
\* messages TimerFD wrote, whether one with stamp 0 was written after a
\* callback invocation and one with another stamp before any, the waits of
\* the negotiation that brought no valid sample, and whether a message was
\* written after a valid sample was taken or with the timer inactive.
\* stopSeen counts the take() calls of the running timer that
\* held a stop signal, cbAfterStopSeen tells whether the update callback was
\* invoked after one of them. hookReplaced holds the threads whose last start
\* call stored a stop callback in place of another one or of none.
\* loopStop tells whether the stop() followed by raceStop was called with a
\* thread in the main loop of start(), cbAfterReturn whether the update
\* callback was invoked after that stop() had returned. readyStopped tells
\* whether receiveStartTime wrote a ReadyStatus with active cleared by a
\* stop() that had returned.
obs0(detail) ==
    [ detail |-> detail,
      cbCount |-> 0, cbPrev |-> NoSample, cbCur |-> NoSample, retTime |-> NoSample,
      missed |-> 0, gaps |-> 0, ready |-> 0, cbSinceStop |-> 0,
      invoked |-> {}, hookCount |-> 0,
      firstSample |-> NoSample, stopInNeg |-> FALSE, stopInRun |-> FALSE,
      calls |-> 0, startCalls |-> 0, published |-> 0,
      late |-> {}, lateDone |-> {}, stoppedAfterStart |-> FALSE,
      postStop |-> {}, cbPostStop |-> FALSE,
      stopInCb |-> {}, cbAfterCbStop |-> FALSE, raceStop |-> "none",
      simSeen |-> <<>>, simCb |-> <<>>, cbDone |-> 0, readyAfterValid |-> 0,
      timeouts |-> 0, script |-> <<>>, class |-> "TimerFD",
      readyWritten |-> {}, stampZeroLate |-> FALSE, stampEarly |-> FALSE,
      emptyWaits |-> 0, readyLate |-> FALSE,
      stopSeen |-> 0, cbAfterStopSeen |-> FALSE, hookReplaced |-> {},
      loopStop |-> FALSE, cbAfterReturn |-> FALSE, readyStopped |-> FALSE ]

\* SimpleTimer before its constructor has run (SimpleTimer.hpp lines 27-39):
\* internal_timer_counter and counter_max are 0. period_milliseconds is the
\* constructor's argument. The fields from ticks on are observations: the
\* internal ticks handled by simple_timer_callback, whether the last of them
\* called the user callback, and the user callback invocations as
\* <<t_now, clock value, internal tick>>.
simple0 ==
    [ constructed |-> FALSE, period_milliseconds |-> 0,
      internal_timer_counter |-> 0, counter_max |-> 0,
      ticks |-> 0, fired |-> FALSE, cbs |-> <<>> ]

\* State after TimerFD::TimerFD (lines 21-54): offset < period, flags false.
InitTimer(Periods, Waits, Stops, now0, detail) ==
    /\ period_nanoseconds \in Periods
    /\ offset_nanoseconds \in 0..(period_nanoseconds - 1)
    /\ wait_for_start \in Waits
    /\ stop_signal \in Stops
    /\ active = FALSE
    /\ cancelled = FALSE
    /\ start_point = 0
    /\ start_point_initialized = FALSE
    /\ m_update_callback = "none"
    /\ m_stop_callback = "none"
    /\ runner_thread = "none"
    /\ join_mutex = "free"
    /\ timer_fd = [state |-> "none", expired |-> FALSE]
    /\ reader_system_trigger = <<>>
    /\ now = now0
    /\ pc = [t \in Threads |-> "idle"]
    /\ deadline = [t \in Threads |-> 0]
    /\ cbArg = [t \in Threads |-> "none"]
    /\ stopRet = [t \in Threads |-> "idle"]
    /\ result = [t \in Threads |-> "none"]
    /\ terminated = FALSE
    /\ obs = obs0(detail)
    /\ sim = sim0
    /\ rtt = rtt0
    /\ hlc = hlc0
    /\ simple = simple0

(* ------------------------- TimerFD::start ------------------------------ *)

\* start() returns to its caller; on the worker the thread function ends.
ReturnFromStart(t) ==
    /\ pc' = [pc EXCEPT ![t] = IF t = Worker THEN "exited" ELSE "idle"]
    /\ result' = [result EXCEPT ![t] = "returned"]
    /\ runner_thread' = IF t = Worker THEN "finished" ELSE runner_thread

\* Lines 137-144: a start on an active timer throws ErrorTimerStart. Thrown
\* on the worker thread nothing catches it: std::terminate ends the process.
StartCheck(t) ==
    /\ ~terminated
    /\ pc[t] = "start_check"
    /\ IF active
       THEN /\ pc' = [pc EXCEPT ![t] = IF t = Worker THEN "dead" ELSE "idle"]
            /\ result' = [result EXCEPT ![t] = "ErrorTimerStart"]
            /\ terminated' = (t = Worker)
            /\ obs' = [obs EXCEPT !.lateDone = IF t \in obs.late THEN @ \cup {t} ELSE @]
       ELSE /\ pc' = [pc EXCEPT ![t] = "start_set"]
            /\ UNCHANGED <<result, terminated, obs>>
    /\ UNCHANGED <<sim, compVars, cfgVars, memVars, envVars, deadline, cbArg, stopRet>>

\* Line 146: active.store(true).
StartSet(t) ==
    /\ ~terminated
    /\ pc[t] = "start_set"
    /\ active' = TRUE
    /\ pc' = [pc EXCEPT ![t] = "start_cancelled"]
    /\ UNCHANGED obs
    /\ UNCHANGED <<sim, compVars, cfgVars, cancelled, start_point, start_point_initialized,
                   m_update_callback, m_stop_callback, runner_thread, join_mutex,
                   timer_fd, envVars, deadline, cbArg, stopRet, result, terminated>>

\* receiveStartTime lines 113-115: the ReadyStatus of the negotiation.
ReadyStatusOfDeadline(node_id, d) == [next_start_stamp |-> d, source_id |-> node_id]

ReadyStatusFD(node_id, d) == [next_start_stamp |-> 0, source_id |-> node_id]

\* The observation of a ReadyStatus written with next_start_stamp = stamp:
\* was a callback invoked before it.
ObserveStamp(o, stamp) ==
    IF ~o.detail THEN o
    ELSE [o EXCEPT !.stampZeroLate = @ \/ (stamp = 0 /\ o.invoked # {}),
                   !.stampEarly = @ \/ (stamp # 0 /\ o.invoked = {})]

\* The observation of a ReadyStatus written by receiveStartTime.
ObserveNegotiationReady(o, status) ==
    IF ~o.detail THEN o
    ELSE [ObserveStamp(o, status.next_start_stamp) EXCEPT
             !.ready = IF @ < MaxReady THEN @ + 1 ELSE @,
             !.readyWritten = @ \cup {status},
             !.readyLate = @ \/ o.firstSample # NoSample]

\* Lines 148-179 without the negotiation: the cancelled check, the callback
\* registration, createTimer, and for wait_for_start = false the first
\* deadline computed from the clock.
StartCancelled(t) ==
    /\ ~terminated
    /\ pc[t] = "start_cancelled"
    /\ IF cancelled
       THEN /\ ReturnFromStart(t)
            /\ UNCHANGED <<m_update_callback, timer_fd, start_point,
                           start_point_initialized, deadline>>
       ELSE /\ m_update_callback' = cbArg[t]
            /\ timer_fd' = [state |-> "armed", expired |-> TRUE]
            /\ UNCHANGED <<result, runner_thread>>
            /\ IF wait_for_start
               THEN /\ pc' = [pc EXCEPT ![t] = "neg_loop"]
                    /\ UNCHANGED <<start_point, start_point_initialized, deadline>>
               ELSE /\ start_point' = now
                    /\ deadline' = [deadline EXCEPT ![t] =
                          FirstDeadline(now, offset_nanoseconds, period_nanoseconds)]
                    /\ start_point_initialized' = TRUE
                    /\ pc' = [pc EXCEPT ![t] = "loop"]
    /\ UNCHANGED <<sim, compVars, cfgVars, active, cancelled, m_stop_callback, join_mutex,
                   envVars, cbArg, stopRet, terminated, obs>>

\* receiveStartTime, lines 119 and 131-132 (with 162-166 of start): the load
\* of active at the head of the loop; an inactive timer returns stop_signal,
\* on which start() returns.
NegLoop(t) ==
    /\ ~terminated
    /\ pc[t] = "neg_loop"
    /\ IF active
       THEN /\ pc' = [pc EXCEPT ![t] = "neg_write"]
            /\ UNCHANGED <<start_point, result, runner_thread>>
       ELSE /\ start_point' = stop_signal
            /\ ReturnFromStart(t)
    /\ UNCHANGED <<sim, compVars, cfgVars, active, cancelled, start_point_initialized,
                   m_update_callback, m_stop_callback, join_mutex, timer_fd,
                   envVars, deadline, cbArg, stopRet, terminated, obs>>

\* receiveStartTime, lines 120-122: the ReadyStatus is written and the
\* waitset is waited on. active is not read again before the write.
NegWrite(t) ==
    /\ ~terminated
    /\ pc[t] = "neg_write"
    /\ obs' = [ObserveNegotiationReady(obs, ReadyStatusFD("node_id", deadline[t])) EXCEPT
                  !.readyStopped = @ \/ (~active /\ obs.raceStop = "returned")]
    /\ pc' = [pc EXCEPT ![t] = "neg_take"]
    /\ UNCHANGED <<sim, compVars, cfgVars, active, cancelled, start_point,
                   start_point_initialized, m_update_callback, m_stop_callback,
                   runner_thread, join_mutex, timer_fd, envVars, deadline,
                   cbArg, stopRet, result, terminated>>

\* receiveStartTime, lines 122-128 (with 162-179 of start): the wait ends (by
\* data or by its 2 s timeout), take() empties the reader, and the first
\* valid sample is the start instant; the rest of the batch is dropped.
NegTake(t) ==
    /\ ~terminated
    /\ pc[t] = "neg_take"
    /\ reader_system_trigger' = <<>>
    /\ LET S == FirstValid(reader_system_trigger)
       IN IF S = NoSample
          THEN /\ pc' = [pc EXCEPT ![t] = "neg_loop"]
               /\ obs' = [obs EXCEPT !.emptyWaits =
                             IF obs.detail /\ @ < MaxReady - 1 THEN @ + 1 ELSE @]
               /\ UNCHANGED <<start_point, start_point_initialized, deadline,
                              result, runner_thread>>
          ELSE /\ start_point' = S
               /\ obs' = [obs EXCEPT !.firstSample = IF obs.detail /\ @ = NoSample THEN S ELSE @]
               /\ IF S = stop_signal
                  THEN /\ ReturnFromStart(t)
                       /\ UNCHANGED <<start_point_initialized, deadline>>
                  ELSE /\ deadline' = [deadline EXCEPT ![t] =
                             FirstDeadline(S, offset_nanoseconds, period_nanoseconds)]
                       /\ start_point_initialized' = TRUE
                       /\ pc' = [pc EXCEPT ![t] = "loop"]
                       /\ UNCHANGED <<result, runner_thread>>
    /\ UNCHANGED <<sim, compVars, cfgVars, active, cancelled, m_update_callback, m_stop_callback,
                   join_mutex, timer_fd, now, cbArg, stopRet, terminated>>

\* Lines 181 and 217: the loop condition; an inactive timer closes the
\* timerfd and start() returns.
Loop(t) ==
    /\ ~terminated
    /\ pc[t] = "loop"
    /\ IF active
       THEN /\ pc' = [pc EXCEPT ![t] = "wait"]
            /\ UNCHANGED <<timer_fd, result, runner_thread>>
       ELSE /\ timer_fd' = [timer_fd EXCEPT !.state = "closed"]
            /\ ReturnFromStart(t)
    /\ UNCHANGED <<sim, compVars, cfgVars, active, cancelled, start_point, start_point_initialized,
                   m_update_callback, m_stop_callback, join_mutex, envVars,
                   deadline, cbArg, stopRet, terminated, obs>>

\* TimerFD::start lines 203-213 and handle_system_trigger lines 62-72: on a
\* stop signal the stop callback is called if one is registered, else active
\* is cleared.
ActiveAfterStopKept(hook, a) == a

ActiveAfterStop(hook, a) == IF hook = "none" THEN FALSE ELSE a

\* The observation of a take() of the running timer that held a stop signal.
ObserveStop(o) ==
    IF ~o.detail THEN o
    ELSE [o EXCEPT !.stopSeen = @ + 1]

\* The observations of one update-callback invocation with deadline d.
ObserveCallback(t, d) ==
    LET seen == [obs EXCEPT !.invoked = @ \cup {m_update_callback},
                            !.cbAfterStopSeen = @ \/ obs.stopSeen > 0,
                            !.cbPostStop = @ \/ t \in obs.postStop,
                            !.cbAfterReturn = @ \/ (obs.loopStop /\ obs.raceStop = "returned"),
                            !.cbAfterCbStop = @ \/ t \in obs.stopInCb]
    IN IF ~obs.detail THEN seen
       ELSE [seen EXCEPT
                !.cbCount = @ + 1,
                !.cbPrev = obs.cbCur,
                !.cbCur = d,
                !.gaps = IF obs.cbCur # NoSample /\ d - obs.cbCur > period_nanoseconds
                         THEN @ + 1 ELSE @,
                !.cbSinceStop = IF obs.stopInRun THEN @ + 1 ELSE @]

\* Lines 182-184: wait() reads the timerfd, which blocks until it has expired
\* (a read of a closed descriptor fails and exits the process); at or past
\* the deadline the update callback is invoked with the deadline.
Wait(t) ==
    /\ ~terminated
    /\ pc[t] = "wait"
    /\ IF timer_fd.state # "armed"
       THEN /\ terminated' = TRUE
            /\ pc' = [pc EXCEPT ![t] = "dead"]
            /\ UNCHANGED <<timer_fd, obs>>
       ELSE /\ timer_fd.expired
            /\ timer_fd' = [timer_fd EXCEPT !.expired = FALSE]
            /\ UNCHANGED terminated
            /\ IF now >= deadline[t]
               THEN /\ pc' = [pc EXCEPT ![t] = "in_cb"]
                    /\ obs' = ObserveCallback(t, deadline[t])
               ELSE /\ pc' = [pc EXCEPT ![t] = "loop"]
                    /\ UNCHANGED obs
    /\ UNCHANGED <<sim, compVars, cfgVars, active, cancelled, start_point, start_point_initialized,
                   m_update_callback, m_stop_callback, runner_thread, join_mutex,
                   envVars, deadline, cbArg, stopRet, result>>

\* Lines 186-201: the deadline after the callback returned at clock value ct.
NextDeadline(ct, d, P) ==
    IF Missed(ct, Advance(d, P)) THEN Correct(ct, Advance(d, P), P) ELSE Advance(d, P)

\* Lines 184-213: the update callback returns; the deadline advances and is
\* corrected when missed (one "Periods missed" warning); the trigger reader is
\* emptied and a stop signal calls the stop callback or clears active.
CbReturn(t) ==
    /\ ~terminated
    /\ pc[t] = "in_cb"
    /\ deadline' = [deadline EXCEPT ![t] = NextDeadline(now, deadline[t], period_nanoseconds)]
    /\ reader_system_trigger' = <<>>
    /\ LET stop == received_stop_signal(reader_system_trigger, stop_signal)
       IN /\ active' = IF stop THEN ActiveAfterStop(m_stop_callback, active) ELSE active
          /\ obs' = [(IF stop THEN ObserveStop(obs) ELSE obs) EXCEPT
                !.retTime = IF obs.detail THEN now ELSE @,
                !.missed = IF obs.detail
                              /\ Missed(now, Advance(deadline[t], period_nanoseconds))
                           THEN @ + 1 ELSE @,
                !.hookCount = IF obs.detail /\ stop /\ m_stop_callback # "none"
                              THEN @ + 1 ELSE @]
    /\ pc' = [pc EXCEPT ![t] = "loop"]
    /\ UNCHANGED <<sim, compVars, cfgVars, cancelled, start_point, start_point_initialized,
                   m_update_callback, m_stop_callback, runner_thread, join_mutex,
                   timer_fd, now, cbArg, stopRet, result, terminated>>

(* ------------------------------ environment ---------------------------- *)

\* Values a SystemTrigger sample carries: a start instant below the largest
\* offset and one ahead of the first clock value, a value at the top of the
\* uint64_t range, the stop symbol, and an invalid sample.
SampleValues == {1, MaxStart, Modulus - 2, TRIGGER_STOP_SYMBOL, INVALID}

\* The coordinator publishes a SystemTrigger; the reliable reader queues it.
Publish(v) ==
    /\ ~terminated
    /\ obs.published < MaxSamples
    /\ reader_system_trigger' = Append(reader_system_trigger, v)
    /\ obs' = [obs EXCEPT
          !.published = @ + 1,
          !.stopInNeg = @ \/ (obs.detail /\ v = stop_signal
                                  /\ \E t \in Threads : InNegotiation(t)),
          !.stopInRun = @ \/ (obs.detail /\ v = stop_signal
                                  /\ \E t \in Threads : InMainLoop(t))]
    /\ UNCHANGED <<sim, compVars, cfgVars, memVars, now, thrVars>>

\* The clock advances by one; an armed timerfd expires on its boundaries.
TickUpTo(last) ==
    /\ ~terminated
    /\ now < last
    /\ now' = now + 1
    /\ timer_fd' = IF timer_fd.state = "armed"
                      /\ FdExpiresAt(now + 1, offset_nanoseconds, period_nanoseconds)
                   THEN [timer_fd EXCEPT !.expired = TRUE]
                   ELSE timer_fd
    /\ UNCHANGED <<sim, compVars, cfgVars, active, cancelled, start_point, start_point_initialized,
                   m_update_callback, m_stop_callback, runner_thread, join_mutex,
                   reader_system_trigger, thrVars, obs>>

\* The clock of the runs of TimerFD ends at MaxTime.
Tick == TickUpTo(MaxTime)

(* --------------------------- application calls ------------------------- *)

\* A thread that is in no call may make one.
MayCall(t) == ~terminated /\ t \in AppThreads /\ pc[t] = "idle" /\ obs.calls < MaxCalls

\* The observation of a start call made while the timer runs.
\* t is the caller, r the thread that will execute start().
ObserveCall(t, r) ==
    [obs EXCEPT !.calls = @ + 1,
                !.startCalls = IF @ = 0 THEN 1 ELSE @,
                !.late = IF Running THEN @ \cup {t} ELSE @ \ {t},
                !.lateDone = @ \ {t},
                !.postStop = IF obs.stoppedAfterStart THEN @ \cup {r} ELSE @ \ {r},
                !.stopInCb = @ \ {r},
                !.raceStop = IF @ = "none" THEN @ ELSE "void"]

\* The observation of the stop callback that the start call of t stores.
ObserveHook(o, t, hook) ==
    [o EXCEPT !.hookReplaced = IF hook /\ m_stop_callback # t
                               THEN @ \cup {t} ELSE @ \ {t}]

\* start(update_callback) and start(update_callback, stop_callback), lines
\* 135 and 220-224: the overload with a stop callback stores it first.
CallStart(t, hook) ==
    /\ MayCall(t)
    /\ m_stop_callback' = IF hook THEN t ELSE m_stop_callback
    /\ cbArg' = [cbArg EXCEPT ![t] = t]
    /\ pc' = [pc EXCEPT ![t] = "start_check"]
    /\ result' = [result EXCEPT ![t] = "none"]
    /\ obs' = ObserveHook(ObserveCall(t, t), t, hook)
    /\ UNCHANGED <<sim, compVars, cfgVars, active, cancelled, start_point, start_point_initialized,
                   m_update_callback, runner_thread, join_mutex, timer_fd, envVars,
                   deadline, stopRet, terminated>>

\* start_async, lines 226-250: with no joinable runner_thread the callback is
\* stored and the worker is spawned to run start(m_update_callback); otherwise
\* ErrorTimerStart is thrown to the caller.
CallStartAsync(t, hook) ==
    /\ MayCall(t)
    /\ m_stop_callback' = IF hook THEN t ELSE m_stop_callback
    /\ IF ~Joinable
       THEN /\ m_update_callback' = t
            /\ runner_thread' = "running"
            /\ pc' = [pc EXCEPT ![Worker] = "start_check"]
            /\ cbArg' = [cbArg EXCEPT ![Worker] = t]
            /\ result' = [result EXCEPT ![t] = "returned", ![Worker] = "none"]
            /\ obs' = [ObserveHook(ObserveCall(t, Worker), t, hook) EXCEPT
                           !.lateDone = IF Running THEN @ \cup {t} ELSE @]
       ELSE /\ result' = [result EXCEPT ![t] = "ErrorTimerStart"]
            /\ obs' = [ObserveHook(ObserveCall(t, Worker), t, hook) EXCEPT
                           !.lateDone = IF Running THEN @ \cup {t} ELSE @]
            /\ UNCHANGED <<m_update_callback, runner_thread, pc, cbArg>>
    /\ UNCHANGED <<sim, compVars, cfgVars, active, cancelled, start_point, start_point_initialized,
                   join_mutex, timer_fd, envVars, deadline, stopRet, terminated>>

\* stop() called by a thread that is in no call.
CallStop(t) ==
    /\ MayCall(t)
    /\ pc' = [pc EXCEPT ![t] = "stop_lock"]
    /\ stopRet' = [stopRet EXCEPT ![t] = "idle"]
    /\ result' = [result EXCEPT ![t] = "none"]
    /\ obs' = [obs EXCEPT !.calls = @ + 1,
                          !.raceStop = IF @ = "none" /\ obs.startCalls > 0
                                       THEN "called" ELSE @,
                          !.loopStop = @ \/ (obs.raceStop = "none" /\ obs.startCalls > 0
                                             /\ \E u \in Threads \ {t} : InMainLoop(u))]
    /\ UNCHANGED <<sim, compVars, cfgVars, memVars, envVars, deadline, cbArg, terminated>>

\* stop() called from inside the update callback, on the thread running it.
CallStopInCallback(t) ==
    /\ ~terminated
    /\ pc[t] = "in_cb"
    /\ obs.calls < MaxCalls
    /\ pc' = [pc EXCEPT ![t] = "stop_lock"]
    /\ stopRet' = [stopRet EXCEPT ![t] = "in_cb"]
    /\ obs' = [obs EXCEPT !.calls = @ + 1, !.stopInCb = @ \cup {t}]
    /\ UNCHANGED <<sim, compVars, cfgVars, memVars, envVars, deadline, cbArg, result, terminated>>

(* ------------------------------ TimerFD::stop -------------------------- *)

\* Lines 254-256: the lock on join_mutex and cancelled.store(true).
StopLock(t) ==
    /\ ~terminated
    /\ pc[t] = "stop_lock"
    /\ join_mutex = "free"
    /\ join_mutex' = t
    /\ cancelled' = TRUE
    /\ pc' = [pc EXCEPT ![t] = "stop_active"]
    /\ UNCHANGED <<sim, compVars, cfgVars, active, start_point, start_point_initialized,
                   m_update_callback, m_stop_callback, runner_thread, timer_fd,
                   envVars, deadline, cbArg, stopRet, result, terminated, obs>>

\* Line 257: active.store(false).
StopActive(t) ==
    /\ ~terminated
    /\ pc[t] = "stop_active"
    /\ active' = FALSE
    /\ pc' = [pc EXCEPT ![t] = "stop_join"]
    /\ UNCHANGED <<sim, compVars, cfgVars, cancelled, start_point, start_point_initialized,
                   m_update_callback, m_stop_callback, runner_thread, join_mutex,
                   timer_fd, envVars, deadline, cbArg, stopRet, result, terminated, obs>>

\* Lines 259-262: a joinable runner_thread is joined. The join returns when
\* the worker has ended. A join of the worker by itself throws
\* std::system_error out of stop(): the lock is released and cancelled stays
\* set; "caught" tells whether the user callback catches the exception (if
\* not, it leaves the thread function and std::terminate ends the process).
StopJoin(t, caught) ==
    /\ ~terminated
    /\ pc[t] = "stop_join"
    /\ IF ~Joinable
       THEN /\ pc' = [pc EXCEPT ![t] = "stop_reset"]
            /\ UNCHANGED <<runner_thread, join_mutex, result, terminated, obs>>
       ELSE IF t = Worker
       THEN /\ join_mutex' = "free"
            /\ result' = [result EXCEPT ![t] = "system_error"]
            /\ terminated' = ~caught
            /\ pc' = [pc EXCEPT ![t] = IF caught THEN stopRet[t] ELSE "dead"]
            /\ UNCHANGED <<runner_thread, obs>>
       ELSE /\ runner_thread = "finished"
            /\ runner_thread' = "none"
            /\ pc' = [pc EXCEPT ![t] = "stop_reset"]
            /\ UNCHANGED <<join_mutex, result, terminated, obs>>
    /\ UNCHANGED <<sim, compVars, cfgVars, active, cancelled, start_point, start_point_initialized,
                   m_update_callback, m_stop_callback, timer_fd, envVars,
                   deadline, cbArg, stopRet>>

\* Lines 264-265: cancelled.store(false), the lock is released, stop() returns.
StopReset(t) ==
    /\ ~terminated
    /\ pc[t] = "stop_reset"
    /\ cancelled' = FALSE
    /\ join_mutex' = "free"
    /\ pc' = [pc EXCEPT ![t] = stopRet[t]]
    /\ result' = [result EXCEPT ![t] = IF stopRet[t] = "idle" THEN "stopped" ELSE @]
    /\ obs' = [obs EXCEPT !.stoppedAfterStart = @ \/ obs.invoked # {},
                          !.raceStop = IF @ = "called" /\ stopRet[t] = "idle"
                                       THEN "returned" ELSE @]
    /\ UNCHANGED <<sim, compVars, cfgVars, active, start_point, start_point_initialized,
                   m_update_callback, m_stop_callback, runner_thread, timer_fd,
                   envVars, deadline, cbArg, stopRet, terminated>>

\* Mutant of get_start_time: start_point is returned without the check of
\* start_point_initialized.
get_start_time_unchecked == start_point

\* TimerFD::get_start_time, lines 290-296.
get_start_time == IF ~start_point_initialized THEN 0 ELSE start_point

(* ---------------------------- specifications --------------------------- *)

\* The steps of start() on any thread.
StartStep(t) ==
    \/ StartCheck(t)
    \/ StartSet(t)
    \/ StartCancelled(t)
    \/ NegLoop(t)
    \/ NegWrite(t)
    \/ NegTake(t)
    \/ Loop(t)
    \/ Wait(t)
    \/ CbReturn(t)

\* The steps of stop() on any thread.
StopStep(t) ==
    \/ StopLock(t)
    \/ StopActive(t)
    \/ \E caught \in BOOLEAN : StopJoin(t, caught)
    \/ StopReset(t)

\* One blocking start() on thread A, the coordinator's triggers and the
\* clock: the tick sequence of the real-time timer.
InitTick == InitTimer(1..MaxPeriod, BOOLEAN, {TRIGGER_STOP_SYMBOL}, MaxPeriod - 1, TRUE)

NextTick ==
    \/ \E hook \in BOOLEAN : obs.calls = 0 /\ CallStart("A", hook)
    \/ StartStep("A")
    \/ \E v \in SampleValues : Publish(v)
    \/ Tick

SpecTick == InitTick /\ [][NextTick]_vars

\* Threads A and B call start, start_async and stop in any order and
\* interleaving, also stop from inside the update callback.
InitLife == InitTimer({MaxPeriod - 1}, BOOLEAN, {TRIGGER_STOP_SYMBOL}, MaxTime - 1, FALSE)

NextLife ==
    \/ \E t \in AppThreads, hook \in BOOLEAN : CallStart(t, hook)
    \/ \E t \in AppThreads, hook \in BOOLEAN : CallStartAsync(t, hook)
    \/ \E t \in AppThreads : CallStop(t)
    \/ \E t \in Threads : CallStopInCallback(t)
    \/ \E t \in Threads : StartStep(t)
    \/ \E t \in Threads : StopStep(t)
    \/ obs.published < MaxSamples - 1 /\ Publish(MaxStart)
    \/ Tick

SpecLife == InitLife /\ [][NextLife]_vars

(* ------------------- claims on the tick sequence (SpecTick) ------------ *)

\* d is congruent to O modulo P.
Congruent(d, O, P) == (d - O) % P = 0

\* d is the smallest value >= S that is congruent to O modulo P.
FirstBoundaryFrom(d, S, O, P) ==
    /\ d >= S
    /\ Congruent(d, O, P)
    /\ \A e \in S..(d - 1) : ~Congruent(e, O, P)

\* C1: every deadline passed to the update callback is congruent to the
\* offset modulo the period and is not before the negotiated start instant.
C1_TickAligned ==
    \A t \in Threads :
        pc[t] = "in_cb" =>
            /\ Congruent(deadline[t], offset_nanoseconds, period_nanoseconds)
            /\ deadline[t] >= start_point

\* C2: consecutive callback deadlines d_i, d_{i+1}: with t' the clock value
\* after callback i returned, d_{i+1} = d_i + P when t' < d_i + P, and
\* otherwise d_{i+1} = d_i + P + ((t' - (d_i + P)) div P + 1) * P, the first
\* period boundary strictly after t'; skipped boundaries get no callback, and
\* the number of missed-period warnings equals the number of gaps.
C2_MissedPeriodRecovery ==
    \A t \in Threads :
        (pc[t] = "in_cb" /\ obs.cbCount >= 2) =>
            LET P == period_nanoseconds
                di == obs.cbPrev
                ret == obs.retTime
            IN /\ obs.cbCur = deadline[t]
               /\ deadline[t] =
                     IF ret < di + P
                     THEN di + P
                     ELSE di + P + (((ret - (di + P)) \div P) + 1) * P
               /\ \E k \in 1..(MaxTime + 2) : deadline[t] = di + k * P
               /\ deadline[t] > ret
               /\ deadline[t] - P <= ret \/ deadline[t] = di + P
               /\ obs.missed = obs.gaps

\* C2 witness: a callback that follows an overrun of at least one period.
C2_Witness ==
    /\ pc["A"] = "in_cb"
    /\ obs.cbCount >= 2
    /\ obs.cbCur - obs.cbPrev >= 2 * period_nanoseconds
    /\ obs.missed = 1

\* C3: the first callback deadline is the smallest value >= the start
\* instant that is congruent to the offset modulo the period.
C3_FirstDeadline ==
    \A t \in Threads :
        (InMainLoop(t) /\ obs.cbCount = 0) =>
            FirstBoundaryFrom(deadline[t], start_point,
                              offset_nanoseconds, period_nanoseconds)

\* C4: when the first valid sample observed in the start negotiation is the
\* stop signal, start() has returned, no callback was ever invoked, and
\* get_start_time() is 0.
C4_StopDuringNegotiation ==
    (wait_for_start /\ obs.firstSample = stop_signal) =>
        /\ pc["A"] = "idle"
        /\ result["A"] = "returned"
        /\ obs.cbCount = 0
        /\ get_start_time = 0

C4_Witness ==
    /\ wait_for_start
    /\ obs.firstSample = stop_signal
    /\ result["A"] = "returned"
    /\ obs.published = 2

\* A valid stop sample waits in the trigger reader.
StopPending == received_stop_signal(reader_system_trigger, stop_signal)

\* C5: a stop trigger that arrived during the start negotiation is honoured:
\* with no stop callback the timer never ticks on with that trigger gone.
C5_StopInNegotiationHonoured ==
    (obs.stopInNeg /\ m_stop_callback = "none") =>
        \A t \in Threads : (InMainLoop(t) /\ active) => StopPending

\* C6: with no stop callback, once a stop trigger arrived at the reader of
\* the running timer, at most one more update callback begins; the trigger
\* stays in the reader until the timer takes it, the timer then is inactive,
\* and start() returns with the timer inactive.
C6_StopWhileRunning ==
    (obs.stopInRun /\ m_stop_callback = "none") =>
        /\ obs.cbSinceStop <= 1
        /\ active => (InMainLoop("A") /\ StopPending)
        /\ ~active => pc["A"] \in {"loop", "idle"}
        /\ pc["A"] = "idle" => (result["A"] = "returned" /\ ~active)

C6_Witness ==
    /\ obs.stopInRun
    /\ m_stop_callback = "none"
    /\ obs.cbSinceStop = 1
    /\ pc["A"] = "idle"
    /\ ~active

(* ------------------- claims on the life cycle (SpecLife) --------------- *)

\* C7: a start or start_async call made while the timer is running ends with
\* ErrorTimerStart raised to its caller, never gets its callback invoked, and
\* leaves the process and the running timer alive.
C7_SecondStartFails ==
    \A t \in AppThreads :
        t \in obs.lateDone =>
            /\ result[t] = "ErrorTimerStart"
            /\ t \notin obs.invoked
            /\ ~terminated

\* C8: after a stop() of a timer that had ticked has returned, no later start() or start_async() call gets
\* the update callback invoked again.
C8_TerminalAfterStop == ~obs.cbPostStop

\* C9: stop() called from inside the update callback returns without an
\* exception and without ending the process, and the thread that made the call
\* does not invoke the callback again.
C9_StopInsideCallback ==
    \A t \in Threads :
        t \in obs.stopInCb =>
            /\ result[t] # "system_error"
            /\ pc[t] # "dead"
            /\ ~obs.cbAfterCbStop

\* C10: once a stop() that was called after a start call has returned, and no
\* start call was made since, the timer is not running.
C10_StartThenStop == obs.raceStop = "returned" => ~Running

(***************************************************************************)
(* Part 2: the simulated-time timer cpm::TimerSimulated                    *)
(* (cpm_lib/src/TimerSimulated.cpp). It has the members of TimerFD apart   *)
(* from the timerfd and the start point, and its start_async and stop are  *)
(* the code of TimerFD's: the variables and the actions CallStart,         *)
(* CallStartAsync, CallStop, StartCheck, StartSet and StopStep are shared. *)
(***************************************************************************)

\* Bound on the waits of the first loop that end by their 2 s timeout.
MaxTimeouts == 1

\* Mutant of CurrentTimeAt: current_time keeps its value.
CurrentTimeKept(d, old) == old

\* handle_system_trigger line 48: current_time = deadline before the callback
\* is invoked; old is the value current_time had.
CurrentTimeAt(d, old) == d

\* TimerSimulated::get_time, lines 197-200.
SimGetTime == sim.current_time

\* TimerSimulated::get_start_time, lines 202-206.
SimGetStartTime == 0

\* Mutant of SampleMatches: a trigger at or before the deadline is accepted.
SampleMatchesUpTo(v, d) == v <= d

\* handle_system_trigger line 47: next_start().nanoseconds() == deadline.
SampleMatches(v, d) == v = d

\* Mutant of SimAdvance: the deadline is not advanced.
SimAdvanceNone(d, P) == d

\* handle_system_trigger line 52: deadline += period_nanoseconds.
SimAdvance(d, P) == Add(d, P)

\* handle_system_trigger lines 78-86: the answer after the loop over take().
Answer(got_new_deadline, got_valid) ==
    IF got_new_deadline THEN "DEADLINE" ELSE IF got_valid THEN "ANY" ELSE "NONE"

\* Mutant of WriteReady: every ReadyStatus carries the stamp 0.
WriteReadyZero(s, stamp) == [s EXCEPT !.writer_ready_status = Append(@, 0)]

\* writer_ready_status.write of a ReadyStatus with next_start_stamp = stamp.
WriteReady(s, stamp) == [s EXCEPT !.writer_ready_status = Append(@, stamp)]

\* The observation of a ReadyStatus written after a valid trigger sample was
\* examined, and of its stamp.
ObserveReady(o) ==
    [o EXCEPT !.readyAfterValid = IF o.simSeen # <<>> THEN @ + 1 ELSE @]

\* Some thread executes TimerSimulated::start past its checks.
SimPcs == {"sim_first", "sim_first_wait", "sim_second", "sim_second_wait",
           "sim_handle", "sim_cb"}
InSimStart(t) == pc[t] \in SimPcs

\* start lines 103-115: the cancelled check, the callback registration, the
\* first deadline = offset_nanoseconds.
SimStartCancelled(t) ==
    /\ ~terminated
    /\ pc[t] = "start_cancelled"
    /\ IF cancelled
       THEN /\ ReturnFromStart(t)
            /\ UNCHANGED <<m_update_callback, deadline, sim>>
       ELSE /\ m_update_callback' = cbArg[t]
            /\ deadline' = [deadline EXCEPT ![t] = offset_nanoseconds]
            /\ sim' = [sim EXCEPT !.current_time = offset_nanoseconds,
                                  !.system_trigger = "NONE",
                                  !.in_first_loop = TRUE]
            /\ pc' = [pc EXCEPT ![t] = "sim_first"]
            /\ UNCHANGED <<result, runner_thread>>
    /\ UNCHANGED <<compVars, cfgVars, active, cancelled, start_point,
                   start_point_initialized, m_stop_callback, join_mutex, timer_fd,
                   envVars, cbArg, stopRet, terminated, obs>>

\* start lines 116-120: the condition of the first loop and the ReadyStatus
\* with the current deadline.
SimFirstLoop(t) ==
    /\ ~terminated
    /\ pc[t] = "sim_first"
    /\ IF sim.system_trigger = "NONE" /\ active
       THEN /\ sim' = WriteReady(sim, deadline[t])
            /\ obs' = ObserveStamp(ObserveReady(obs), deadline[t])
            /\ pc' = [pc EXCEPT ![t] = "sim_first_wait"]
       ELSE /\ pc' = [pc EXCEPT ![t] = "sim_second"]
            /\ sim' = [sim EXCEPT !.in_first_loop = FALSE]
            /\ UNCHANGED obs
    /\ UNCHANGED <<compVars, cfgVars, memVars, envVars, deadline, cbArg, stopRet,
                   result, terminated>>

\* The wait on the waitset can end: with a timeout always (after 2 s at the
\* latest), without one only when the read condition holds, i.e. the reader
\* has a sample.
WaitEnds(t) ==
    \/ pc[t] = "sim_first_wait"
    \/ pc[t] = "sim_second_wait" /\ reader_system_trigger # <<>>

\* start lines 121-123 and 129-132 with handle_system_trigger lines 40-43:
\* the wait ends and take() moves the reader's samples to the loop.
SimWait(t) ==
    /\ ~terminated
    /\ pc[t] \in {"sim_first_wait", "sim_second_wait"}
    /\ WaitEnds(t)
    /\ reader_system_trigger = <<>> => obs.timeouts < MaxTimeouts
    /\ sim' = [sim EXCEPT !.samples = reader_system_trigger,
                          !.got_valid = FALSE, !.got_new_deadline = FALSE]
    /\ reader_system_trigger' = <<>>
    /\ obs' = [obs EXCEPT !.timeouts = IF reader_system_trigger = <<>> THEN @ + 1 ELSE @]
    /\ pc' = [pc EXCEPT ![t] = "sim_handle"]
    /\ UNCHANGED <<compVars, cfgVars, memVars, now, deadline, cbArg, stopRet,
                   result, terminated>>

\* The loop of start() that handle_system_trigger returns to.
SimLoopPc == IF sim.in_first_loop THEN "sim_first" ELSE "sim_second"

\* handle_system_trigger lines 43-75, one sample of the take(): an invalid
\* sample is skipped; a sample that matches the deadline sets current_time and
\* invokes the update callback; the stop symbol calls the stop callback or
\* clears active and returns STOP, dropping the rest of the take(); any other
\* valid sample only sets got_valid.
SimSample(t) ==
    /\ ~terminated
    /\ pc[t] = "sim_handle"
    /\ sim.samples # <<>>
    /\ LET v == Head(sim.samples)
           d == deadline[t]
           seen == [obs EXCEPT !.simSeen = Append(@, <<v, d>>)]
       IN IF v = INVALID
          THEN /\ sim' = [sim EXCEPT !.samples = Tail(@)]
               /\ UNCHANGED <<active, pc, obs>>
          ELSE IF SampleMatches(v, d)
          THEN /\ sim' = [sim EXCEPT !.samples = Tail(@), !.got_valid = TRUE,
                                     !.current_time = CurrentTimeAt(d, @)]
               /\ pc' = [pc EXCEPT ![t] = "sim_cb"]
               /\ obs' = [ObserveCallback(t, d) EXCEPT
                             !.simSeen = Append(@, <<v, d>>),
                             !.simCb = Append(@, d)]
               /\ UNCHANGED active
          ELSE IF v = TRIGGER_STOP_SYMBOL
          THEN /\ sim' = [sim EXCEPT !.samples = <<>>, !.got_valid = TRUE,
                                     !.system_trigger = "STOP"]
               /\ active' = ActiveAfterStop(m_stop_callback, active)
               /\ obs' = [ObserveStop(seen) EXCEPT !.hookCount =
                             IF m_stop_callback # "none" THEN @ + 1 ELSE @]
               /\ pc' = [pc EXCEPT ![t] = SimLoopPc]
          ELSE /\ sim' = [sim EXCEPT !.samples = Tail(@), !.got_valid = TRUE]
               /\ obs' = seen
               /\ UNCHANGED <<active, pc>>
    /\ UNCHANGED <<compVars, cfgVars, cancelled, start_point, start_point_initialized,
                   m_update_callback, m_stop_callback, runner_thread, join_mutex,
                   timer_fd, envVars, deadline, cbArg, stopRet, result, terminated>>

\* Mutant of ReadyStamp: the ReadyStatus is filled before the deadline is
\* advanced.
ReadyStampBeforeAdvance(d, next) == d

\* handle_system_trigger lines 52 and 58: the stamp of the ReadyStatus is read
\* from deadline after deadline += period_nanoseconds; d is the deadline the
\* callback was invoked with, next the advanced one.
ReadyStamp(d, next) == next

\* handle_system_trigger lines 51-60: the update callback returns, the
\* deadline advances by the period and the next ReadyStatus is written.
SimCallbackReturn(t) ==
    /\ ~terminated
    /\ pc[t] = "sim_cb"
    /\ LET next == SimAdvance(deadline[t], period_nanoseconds)
       IN /\ deadline' = [deadline EXCEPT ![t] = next]
          /\ sim' = [WriteReady(sim, ReadyStamp(deadline[t], next))
                         EXCEPT !.got_new_deadline = TRUE]
    /\ obs' = [ObserveStamp(ObserveReady(obs),
                            SimAdvance(deadline[t], period_nanoseconds))
                   EXCEPT !.cbDone = @ + 1]
    /\ pc' = [pc EXCEPT ![t] = "sim_handle"]
    /\ UNCHANGED <<compVars, cfgVars, memVars, envVars, cbArg, stopRet, result,
                   terminated>>

\* handle_system_trigger lines 78-86 with start lines 123 and 132: the take()
\* is exhausted and the answer is assigned to system_trigger.
SimAnswer(t) ==
    /\ ~terminated
    /\ pc[t] = "sim_handle"
    /\ sim.samples = <<>>
    /\ sim' = [sim EXCEPT !.system_trigger = Answer(sim.got_new_deadline, sim.got_valid)]
    /\ pc' = [pc EXCEPT ![t] = SimLoopPc]
    /\ UNCHANGED <<compVars, cfgVars, memVars, envVars, deadline, cbArg, stopRet,
                   result, terminated, obs>>

\* start lines 127-134: the condition of the second loop; an inactive timer
\* returns from start().
SimSecondLoop(t) ==
    /\ ~terminated
    /\ pc[t] = "sim_second"
    /\ IF active
       THEN /\ pc' = [pc EXCEPT ![t] = "sim_second_wait"]
            /\ UNCHANGED <<result, runner_thread>>
       ELSE ReturnFromStart(t)
    /\ UNCHANGED <<sim, compVars, cfgVars, active, cancelled, start_point,
                   start_point_initialized, m_update_callback, m_stop_callback,
                   join_mutex, timer_fd, envVars, deadline, cbArg, stopRet,
                   terminated, obs>>

\* The coordinator of the simulation publishes its next SystemTrigger; the
\* reliable reader queues it.
CoordinatorPublish ==
    /\ ~terminated
    /\ sim.coordinator # <<>>
    /\ reader_system_trigger' = Append(reader_system_trigger, Head(sim.coordinator))
    /\ sim' = [sim EXCEPT !.coordinator = Tail(@)]
    /\ UNCHANGED <<compVars, cfgVars, memVars, now, thrVars, obs>>

\* The steps of TimerSimulated::start on any thread.
SimStartStep(t) ==
    \/ StartCheck(t)
    \/ StartSet(t)
    \/ SimStartCancelled(t)
    \/ SimFirstLoop(t)
    \/ SimWait(t)
    \/ SimSample(t)
    \/ SimCallbackReturn(t)
    \/ SimAnswer(t)
    \/ SimSecondLoop(t)

(* --------------------- specification of the Sim timer ------------------ *)

\* All sequences over S of length at most n.
SeqsUpTo(S, n) == UNION {[1..k -> S] : k \in 0..n}

\* The values of the coordinator's triggers: the first three ticks of the
\* timer, the stop symbol, and an invalid sample.
SimTriggerValues(O, P) ==
    {O, Add(O, P), Add(O, 2 * P), TRIGGER_STOP_SYMBOL, INVALID}

\* The lockstep run of three ticks and a stop, and the same without the
\* trigger of the first tick.
Lockstep(O, P) == <<O, Add(O, P), Add(O, 2 * P), TRIGGER_STOP_SYMBOL>>

\* What the coordinator publishes over a run: any short sequence of trigger
\* values (stale, duplicate, future, stop and invalid samples in any order)
\* or the lockstep run.
SimScripts(O, P) ==
    SeqsUpTo(SimTriggerValues(O, P), MaxSamples)
        \cup {Lockstep(O, P), Tail(Lockstep(O, P))}

\* State after TimerSimulated::TimerSimulated (lines 18-37): any offset, also
\* offset >= period; active and cancelled false; current_time 0.
InitSimAt(Offsets) ==
    /\ period_nanoseconds = MaxPeriod - 1
    /\ offset_nanoseconds \in Offsets
    /\ wait_for_start = FALSE
    /\ stop_signal = TRIGGER_STOP_SYMBOL
    /\ active = FALSE
    /\ cancelled = FALSE
    /\ start_point = 0
    /\ start_point_initialized = FALSE
    /\ m_update_callback = "none"
    /\ m_stop_callback = "none"
    /\ runner_thread = "none"
    /\ join_mutex = "free"
    /\ timer_fd = [state |-> "none", expired |-> FALSE]
    /\ reader_system_trigger = <<>>
    /\ now = 0
    /\ pc = [t \in Threads |-> "idle"]
    /\ deadline = [t \in Threads |-> 0]
    /\ cbArg = [t \in Threads |-> "none"]
    /\ stopRet = [t \in Threads |-> "idle"]
    /\ result = [t \in Threads |-> "none"]
    /\ terminated = FALSE
    /\ sim \in {[sim0 EXCEPT !.coordinator = sc] :
                   sc \in SimScripts(offset_nanoseconds, period_nanoseconds)}
    /\ obs = [obs0(TRUE) EXCEPT !.script = sim.coordinator,
                                !.class = "TimerSimulated"]
    /\ rtt = rtt0
    /\ hlc = hlc0
    /\ simple = simple0

\* Offsets below, inside and at the period.
InitSim == InitSimAt({0, 1, MaxPeriod - 1})

\* Thread A starts the timer once, blocking or with start_async; thread B may
\* call stop() afterwards; the coordinator publishes its triggers.
NextSim ==
    \/ \E hook \in BOOLEAN : obs.calls = 0 /\ CallStart("A", hook)
    \/ \E hook \in BOOLEAN : obs.calls = 0 /\ CallStartAsync("A", hook)
    \/ obs.calls = 1 /\ CallStop("B")
    \/ \E t \in {"A", Worker} : SimStartStep(t)
    \/ StopStep("B")
    \/ CoordinatorPublish

SpecSim == InitSim /\ [][NextSim]_vars

(* ---------------------- claims on the Sim timer (SpecSim) -------------- *)

\* The valid samples examined so far whose value was the deadline expected
\* when they were examined.
SimMatched == SelectSeq(obs.simSeen, LAMBDA e : e[1] = e[2])

\* A thread is inside the update callback of the Sim timer.
InSimCallback == \E t \in Threads : pc[t] = "sim_cb"

\* C11: the update callback is invoked with d exactly for the valid samples
\* whose next_start equals the deadline d expected when the sample is
\* examined, in their order; every other valid sample that is not the stop
\* symbol invokes nothing, leaves the deadline where the returned callbacks
\* put it (offset + number of returned callbacks * period), and no ReadyStatus
\* is written for it: after the first valid sample, one ReadyStatus per
\* returned callback.
C11_ExactMatch ==
    /\ obs.simCb = [i \in 1..Len(SimMatched) |-> SimMatched[i][2]]
    /\ Len(obs.simCb) = obs.cbDone + (IF InSimCallback THEN 1 ELSE 0)
    /\ \A t \in Threads :
          InSimStart(t) =>
              deadline[t] = Add(offset_nanoseconds, Mul(obs.cbDone, period_nanoseconds))
    /\ obs.readyAfterValid = obs.cbDone

\* C11 witness: after a dispatched tick a stale duplicate of its trigger was
\* examined and ignored, and the timer waits for the next trigger.
C11_Witness ==
    /\ Len(obs.simCb) = 1
    /\ Len(obs.simSeen) = 2
    /\ obs.simSeen[2][1] < obs.simSeen[2][2]
    /\ \E t \in Threads : pc[t] = "sim_second_wait"

\* The start call has ended: the blocking start() returned to thread A, or
\* the worker of start_async left start().
SimExited ==
    \/ pc[Worker] = "exited"
    \/ cbArg["A"] = "A" /\ pc["A"] = "idle" /\ result["A"] = "returned"

\* The set of next_start_stamp values of the ReadyStatus messages written.
ReadyStamps == {sim.writer_ready_status[i] : i \in 1..Len(sim.writer_ready_status)}

\* A run with offset 0, no stop callback and no stop() call, in which the
\* coordinator publishes the triggers of script.
LockstepRun(script) ==
    /\ offset_nanoseconds = 0
    /\ obs.script = script
    /\ m_stop_callback = "none"
    /\ obs.calls = 1

IsPrefix(a, b) == Len(a) <= Len(b) /\ \A i \in 1..Len(a) : a[i] = b[i]

\* C12 as stated: with offset 0 and the triggers P, 2P, STOP published in
\* that order, the timer has, when it exits, invoked exactly cb(P), cb(2P) and
\* written ReadyStatus with exactly the stamps 0, P, 2P, 3P.
C12_LockstepScenario ==
    LET P == period_nanoseconds
    IN (LockstepRun(<<P, 2 * P, TRIGGER_STOP_SYMBOL>>) /\ SimExited) =>
           /\ obs.simCb = <<P, 2 * P>>
           /\ ReadyStamps = {0, P, 2 * P, 3 * P}

\* C12 amended: with offset 0, no stop callback and no stop() call, and the
\* triggers 0, P, 2P, STOP published in that order, the callbacks invoked are
\* at every moment a prefix of cb(0), cb(P), cb(2P), and when the timer has
\* exited they are exactly these three and the ReadyStatus stamps written
\* are exactly 0, P, 2P, 3P.
C12_LockstepFromOffset ==
    LET P == period_nanoseconds
    IN LockstepRun(<<0, P, 2 * P, TRIGGER_STOP_SYMBOL>>) =>
           /\ IsPrefix(obs.simCb, <<0, P, 2 * P>>)
           /\ ReadyStamps \subseteq {0, P, 2 * P, 3 * P}
           /\ SimExited =>
                 /\ obs.simCb = <<0, P, 2 * P>>
                 /\ ReadyStamps = {0, P, 2 * P, 3 * P}
                 /\ ~active

C12_Witness ==
    /\ LockstepRun(<<0, period_nanoseconds, 2 * period_nanoseconds, TRIGGER_STOP_SYMBOL>>)
    /\ SimExited
    /\ Len(obs.simCb) = 3
    /\ obs.timeouts = 1

\* The update callback of thread t returns in this step.
SimCallbackReturns(t) == pc[t] = "sim_cb" /\ pc'[t] # "sim_cb"

\* C30: a ReadyStatus written once a tick was dispatched is written when the
\* update callback cb(d) returns, after the deadline advanced to d + P, and
\* carries d + P; every return of the callback writes exactly one; while
\* cb(d) executes no ReadyStatus for d + P has been written, and the messages
\* written since the first tick are as many as the callbacks that returned.
C30_LockstepOrder ==
    /\ [](\A t \in Threads :
             pc[t] = "sim_cb" =>
                 /\ obs.simCb # <<>>
                 /\ obs.simCb[Len(obs.simCb)] = deadline[t]
                 /\ \A i \in 1..Len(sim.writer_ready_status) :
                        sim.writer_ready_status[i] <= deadline[t]
                 /\ Len(obs.simCb) = obs.cbDone + 1)
    /\ [][ /\ (sim'.writer_ready_status # sim.writer_ready_status /\ obs.simCb # <<>>) =>
                \E t \in Threads :
                    /\ SimCallbackReturns(t)
                    /\ deadline'[t] = Add(deadline[t], period_nanoseconds)
                    /\ sim'.writer_ready_status =
                          Append(sim.writer_ready_status, deadline'[t])
          /\ \A t \in Threads :
                SimCallbackReturns(t) =>
                    /\ Len(sim'.writer_ready_status) = Len(sim.writer_ready_status) + 1
                    /\ obs'.cbDone = obs.cbDone + 1 ]_vars

\* C30 witness: two ticks were dispatched and answered by a ReadyStatus each,
\* and the callback of the third executes.
C30_Witness ==
    /\ obs.cbDone = 2
    /\ Len(obs.simCb) = 3
    /\ InSimCallback
    /\ \E k \in 1..Len(sim.writer_ready_status) :
          /\ sim.writer_ready_status[k] = obs.simCb[2]
          /\ k + 1 = Len(sim.writer_ready_status)
          /\ sim.writer_ready_status[k + 1] = obs.simCb[3]

\* C33: the i-th update callback (i = 0, 1, ...) of a Sim timer is invoked
\* with offset + i * period, get_time() returns d while cb(d) executes, and
\* get_start_time() returns 0 in every state.
C33_SimTickSequence ==
    /\ \A i \in 1..Len(obs.simCb) :
          obs.simCb[i] = Add(offset_nanoseconds, Mul(i - 1, period_nanoseconds))
    /\ \A t \in Threads :
          pc[t] = "sim_cb" =>
              /\ obs.simCb # <<>>
              /\ deadline[t] = obs.simCb[Len(obs.simCb)]
              /\ SimGetTime = deadline[t]
    /\ SimGetStartTime = 0

\* C33 witness: a Sim timer with a non-zero offset executes its third
\* callback, cb(offset + 2 * period).
C33_Witness ==
    /\ offset_nanoseconds > 0
    /\ InSimCallback
    /\ obs.simCb = <<offset_nanoseconds,
                     offset_nanoseconds + period_nanoseconds,
                     offset_nanoseconds + 2 * period_nanoseconds>>
    /\ SimGetTime = offset_nanoseconds + 2 * period_nanoseconds

\* The wait of thread t has a timeout, and the loop it belongs to writes a
\* ReadyStatus with the deadline before it waits again (start lines 116-123).
KeepAlive(t) == WaitEnds(t) /\ sim.in_first_loop

\* C31: in every state in which the running Sim timer waits for a trigger and
\* no stop signal was received and the reader holds no sample, the wait ends
\* after 2 s and the ReadyStatus with the current deadline is published again,
\* also after non-matching samples and after dispatched ticks.
C31_KeepAliveEverywhere ==
    \A t \in Threads :
        (pc[t] \in {"sim_first_wait", "sim_second_wait"} /\ active
            /\ obs.stopSeen = 0 /\ reader_system_trigger = <<>>) => KeepAlive(t)

\* C13: a thread of the timer that waits on the trigger reader after stop()
\* has cleared active is never blocked without bound: its wait can end
\* without a further trigger being published.
C13_StopEndsWait ==
    \A t \in Threads :
        (pc[t] \in {"sim_first_wait", "sim_second_wait"} /\ ~active /\ obs.calls = 2) =>
            WaitEnds(t)

(***************************************************************************)
(* Part 3: the round-trip-time aggregator of the lab control center        *)
(* (lab_control_center/src/RTTAggregator.cpp): the measurement worker that *)
(* closes one round after the other, the eviction of silent classes, and   *)
(* restart_measurement / stop_measurement / get_rtt called by other        *)
(* threads. One unit of now stands for 5 s.                                *)
(***************************************************************************)

\* Number of measurement rounds of a run.
MaxRounds == 3
\* Last instant of the aggregator's clock.
MaxRttTime == 4
\* Number of restart_measurement / stop_measurement calls of a run.
MaxRttCalls == 2
\* Largest round trip time of a response.
MaxRtt == 2

\* RTTAggregator.hpp line 44: 10e9 ns, in units of 5 s.
delete_entry_timeout_ns == 2

\* The class keys of the responders. The code addresses every container by one
\* key at a time, so that the classes do not influence each other.
RttIds == {"vehicle"}

\* The state of everything but the aggregator.
timerVars == <<cfgVars, memVars, envVars, thrVars, obs, sim, simple>>

\* std::map operator[] as an rvalue (a missing key reads as 0), assignment
\* through operator[], and erase.
MapGet(f, k) == IF k \in DOMAIN f THEN f[k] ELSE 0
Put(f, k, v) == [x \in (DOMAIN f) \cup {k} |-> IF x = k THEN v ELSE f[x]]
Erase(f, k) == [x \in (DOMAIN f) \ {k} |-> f[x]]

\* Mutant of delete_entry: the counters of the class are not erased.
delete_entry_keep_count(s, id) ==
    [s EXCEPT !.current_best_rtt = Erase(@, id),
              !.current_worst_rtt = Erase(@, id),
              !.all_time_worst_rtt = Erase(@, id),
              !.last_msg_timestamp = Erase(@, id),
              !.received_ids = @ \ {id}]

\* RTTAggregator::delete_entry, lines 106-115.
delete_entry(s, id) ==
    [s EXCEPT !.current_best_rtt = Erase(@, id),
              !.current_worst_rtt = Erase(@, id),
              !.all_time_worst_rtt = Erase(@, id),
              !.measure_count = Erase(@, id),
              !.missed_answers = Erase(@, id),
              !.last_msg_timestamp = Erase(@, id),
              !.received_ids = @ \ {id}]

\* Mutant of AllTimeWorst: the latest worst value replaces the stored one.
AllTimeWorstLatest(worst, stored) == worst

\* Line 61: std::max(entry.second.second, all_time_worst_rtt[entry.first]).
AllTimeWorst(worst, stored) == IF worst > stored THEN worst ELSE stored

\* Mutant of MissedCount: a silent round is not counted in measure_count.
MissedCountForgotten(measured) == measured

\* Line 88: measure_count[id] += 1 of a round without a response.
MissedCount(measured) == measured + 1

\* Mutant of StoreResponse: the class is not remembered in received_ids.
StoreResponseUnremembered(s, id, e, t) ==
    LET first == id \notin DOMAIN s.measure_count
    IN [s EXCEPT
          !.current_best_rtt = Put(@, id, e[1]),
          !.current_worst_rtt = Put(@, id, e[2]),
          !.last_msg_timestamp = Put(@, id, t),
          !.missed_answers = IF first THEN Put(@, id, 0) ELSE @,
          !.measure_count = IF first THEN Put(@, id, 1) ELSE Put(@, id, @[id] + 1),
          !.all_time_worst_rtt =
              IF first THEN Put(@, id, e[2])
              ELSE Put(@, id, AllTimeWorst(e[2], MapGet(@, id)))]

\* Lines 39-62: the entry e = <<best, worst>> of a class that responded in
\* the round closed at time t.
StoreResponse(s, id, e, t) ==
    LET first == id \notin DOMAIN s.measure_count
    IN [s EXCEPT
          !.received_ids = @ \cup {id},
          !.current_best_rtt = Put(@, id, e[1]),
          !.current_worst_rtt = Put(@, id, e[2]),
          !.last_msg_timestamp = Put(@, id, t),
          !.missed_answers = IF first THEN Put(@, id, 0) ELSE @,
          !.measure_count = IF first THEN Put(@, id, 1) ELSE Put(@, id, @[id] + 1),
          !.all_time_worst_rtt =
              IF first THEN Put(@, id, e[2])
              ELSE Put(@, id, AllTimeWorst(e[2], MapGet(@, id)))]

\* Mutant of TimedOut: an entry is also deleted at the timeout itself.
TimedOutAtTimeout(age) == age >= delete_entry_timeout_ns

\* Line 70: get_time_ns() - last_msg_timestamp[id] > delete_entry_timeout_ns.
TimedOut(age) == age > delete_entry_timeout_ns

\* Mutant of SilentRtt: the current value of the last response is kept.
SilentRttKept(stored) == stored

\* Lines 77-78: current_best_rtt[id] = 0 and current_worst_rtt[id] = 0 of a
\* round without a response.
SilentRtt(stored) == 0

\* Lines 67-91: a class that was known before the round and did not respond
\* in the round closed at time t.
StoreMissing(s, id, t) ==
    IF TimedOut(t - MapGet(s.last_msg_timestamp, id))
    THEN delete_entry(s, id)
    ELSE LET first == id \notin DOMAIN s.measure_count
         IN [s EXCEPT
               !.last_msg_timestamp = Put(@, id, MapGet(@, id)),
               !.current_best_rtt = Put(@, id, SilentRtt(MapGet(@, id))),
               !.current_worst_rtt = Put(@, id, SilentRtt(MapGet(@, id))),
               !.missed_answers = IF first THEN Put(@, id, 1) ELSE Put(@, id, @[id] + 1),
               !.measure_count = IF first THEN Put(@, id, 1)
                                 ELSE Put(@, id, MissedCount(@[id]))]

\* Lines 33-64, the loop over the entries of the round.
RECURSIVE StoreResponses(_, _, _, _)
StoreResponses(s, ids, r, t) ==
    IF ids = {} THEN s
    ELSE LET id == CHOOSE x \in ids : TRUE
         IN StoreResponses(StoreResponse(s, id, r[id], t), ids \ {id}, r, t)

\* Lines 67-91, the loop over missing_ids.
RECURSIVE StoreMissings(_, _, _)
StoreMissings(s, ids, t) ==
    IF ids = {} THEN s
    ELSE LET id == CHOOSE x \in ids : TRUE
         IN StoreMissings(StoreMissing(s, id, t), ids \ {id}, t)

\* Lines 29-91: the round r is stored under the lock at time t; missing_ids
\* are the classes known before the round that are not in r.
CloseRound(s, r, t) ==
    StoreMissings(StoreResponses(s, DOMAIN r, r, t), s.received_ids \ DOMAIN r, t)

\* The results measure_rtt() can return: per responding class the best and
\* the worst round trip time of the round, best <= worst.
RttPairs == {e \in (1..MaxRtt) \X (1..MaxRtt) : e[1] <= e[2]}
RoundResults == UNION {[ids -> RttPairs] : ids \in SUBSET RttIds}

\* The history of each class since its entry was created, after the round r
\* was stored and led from s to sNew: the rounds closed, the rounds without a
\* response, the largest worst value of the rounds with a response.
HistAfter(s, r, sNew) ==
    LET evicted == {id \in (DOMAIN s.hist) \ DOMAIN r : id \notin sNew.received_ids}
        keys == ((DOMAIN s.hist) \cup DOMAIN r) \ evicted
    IN [id \in keys |->
          IF id \in DOMAIN r
          THEN IF id \in DOMAIN s.hist
               THEN [rounds |-> s.hist[id].rounds + 1,
                     silent |-> s.hist[id].silent,
                     maxWorst |-> IF r[id][2] > s.hist[id].maxWorst
                                  THEN r[id][2] ELSE s.hist[id].maxWorst]
               ELSE [rounds |-> 1, silent |-> 0, maxWorst |-> r[id][2]]
          ELSE [rounds |-> s.hist[id].rounds + 1,
                silent |-> s.hist[id].silent + 1,
                maxWorst |-> s.hist[id].maxWorst]]

\* The all-time worst values of the entries that the round r evicted.
EvictedWorstAfter(s, r, sNew) ==
    LET evicted == {id \in s.received_ids \ DOMAIN r : id \notin sNew.received_ids}
    IN [id \in (DOMAIN s.evictedWorst) \cup evicted |->
          IF id \in evicted THEN MapGet(s.all_time_worst_rtt, id) ELSE s.evictedWorst[id]]

\* Line 24: the loop condition of the worker; with run_rtt_thread false the
\* thread function returns.
RttLoop ==
    /\ ~rtt.terminated
    /\ rtt.wpc = "loop"
    /\ rtt' = IF rtt.run_rtt_thread
              THEN [rtt EXCEPT !.wpc = "measure", !.roundEpoch = rtt.epoch]
              ELSE [rtt EXCEPT !.wpc = "exited"]
    /\ UNCHANGED <<timerVars, hlc>>

\* Line 27: measure_rtt() returns the result r of one round.
RttMeasure(r) ==
    /\ ~rtt.terminated
    /\ rtt.wpc = "measure"
    /\ rtt.rounds < MaxRounds
    /\ rtt' = [rtt EXCEPT !.wpc = "store", !.round = r]
    /\ UNCHANGED <<timerVars, hlc>>

\* Lines 29-91: under rtt_values_mutex the round is stored.
RttStore ==
    /\ ~rtt.terminated
    /\ rtt.wpc = "store"
    /\ rtt.rtt_values_mutex = "free"
    /\ LET stored == CloseRound(rtt, rtt.round, rtt.now)
       IN rtt' = [stored EXCEPT
                     !.wpc = "loop",
                     !.rounds = @ + 1,
                     !.staleStored = @ \/ rtt.roundEpoch # rtt.epoch,
                     !.storedSinceRestart = @ \/ rtt.round # EmptyMap,
                     !.hist = HistAfter(rtt, rtt.round, stored),
                     !.evictedWorst = EvictedWorstAfter(rtt, rtt.round, stored)]
    /\ UNCHANGED <<timerVars, hlc>>

\* cpm::get_time_ns() advances.
RttTick ==
    /\ ~rtt.terminated
    /\ rtt.now < MaxRttTime
    /\ rtt' = [rtt EXCEPT !.now = @ + 1]
    /\ UNCHANGED <<timerVars, hlc>>

\* A thread calls restart_measurement() (op = "restart", lines 117-119) or
\* stop_measurement() (op = "stop", lines 134-136).
CallMeasurement(t, op) ==
    /\ ~rtt.terminated
    /\ rtt.cpc[t] = "idle"
    /\ rtt.calls < MaxRttCalls
    /\ rtt' = [rtt EXCEPT !.cpc[t] = "destroy_store", !.op[t] = op, !.calls = @ + 1]
    /\ UNCHANGED <<timerVars, hlc>>

\* destroy_rtt_thread line 99: run_rtt_thread.store(false).
DestroyStore(t) ==
    /\ ~rtt.terminated
    /\ rtt.cpc[t] = "destroy_store"
    /\ rtt' = [rtt EXCEPT !.run_rtt_thread = FALSE, !.cpc[t] = "destroy_join"]
    /\ UNCHANGED <<timerVars, hlc>>

\* Mutant of MustJoin: the worker is not joined.
MustJoinNever(joinable) == FALSE

\* destroy_rtt_thread line 100: if (check_rtt_thread.joinable()).
MustJoin(joinable) == joinable

\* Mutant of AfterDestroy: stop_measurement goes on like restart_measurement.
AfterDestroyClear(op) == "clear"

\* Lines 119-122 and 136-137: after destroy_rtt_thread restart_measurement
\* goes on to clear the containers, stop_measurement returns.
AfterDestroy(op) == IF op = "restart" THEN "clear" ELSE "idle"

\* destroy_rtt_thread lines 100-104: a joinable worker is joined, which
\* returns when the worker has left its loop; then restart_measurement goes
\* on and stop_measurement returns.
DestroyJoin(t) ==
    /\ ~rtt.terminated
    /\ rtt.cpc[t] = "destroy_join"
    /\ LET next == AfterDestroy(rtt.op[t])
       IN IF MustJoin(rtt.check_rtt_thread = "joinable")
          THEN /\ rtt.wpc = "exited"
               /\ rtt' = [rtt EXCEPT !.check_rtt_thread = "none", !.wpc = "none",
                                     !.cpc[t] = next]
          ELSE rtt' = [rtt EXCEPT !.cpc[t] = next]
    /\ UNCHANGED <<timerVars, hlc>>

\* restart_measurement lines 122-129: the lock is taken and the seven
\* containers are cleared.
RestartClear(t) ==
    /\ ~rtt.terminated
    /\ rtt.cpc[t] = "clear"
    /\ rtt.rtt_values_mutex = "free"
    /\ rtt' = [rtt EXCEPT
                  !.rtt_values_mutex = t,
                  !.current_best_rtt = EmptyMap, !.current_worst_rtt = EmptyMap,
                  !.all_time_worst_rtt = EmptyMap, !.measure_count = EmptyMap,
                  !.missed_answers = EmptyMap, !.received_ids = {},
                  !.last_msg_timestamp = EmptyMap,
                  !.cpc[t] = "create",
                  !.epoch = @ + 1, !.hist = EmptyMap, !.evictedWorst = EmptyMap]
    /\ UNCHANGED <<timerVars, hlc>>

\* restart_measurement lines 131-132 with create_rtt_thread lines 21-22:
\* run_rtt_thread.store(true), the new std::thread is assigned to
\* check_rtt_thread (the assignment to a joinable std::thread calls
\* std::terminate), the lock is released and the call returns.
RestartCreate(t) ==
    /\ ~rtt.terminated
    /\ rtt.cpc[t] = "create"
    /\ rtt' = IF rtt.check_rtt_thread = "joinable"
              THEN [rtt EXCEPT !.run_rtt_thread = TRUE, !.terminated = TRUE]
              ELSE [rtt EXCEPT !.run_rtt_thread = TRUE,
                               !.check_rtt_thread = "joinable", !.wpc = "loop",
                               !.rtt_values_mutex = "free", !.cpc[t] = "idle",
                               !.storedSinceRestart = FALSE]
    /\ UNCHANGED <<timerVars, hlc>>

\* RTTAggregator::get_rtt, lines 139-165: found is the return value, missed
\* the fraction missed_answers / measure_count as <<numerator, denominator>>,
\* and overflow the warning of the measure_count <= 0 guard.
get_rtt(id) ==
    IF id \notin DOMAIN rtt.current_best_rtt
    THEN [found |-> FALSE]
    ELSE [found |-> TRUE,
          current_best |-> rtt.current_best_rtt[id],
          current_worst |-> MapGet(rtt.current_worst_rtt, id),
          all_time_worst |-> MapGet(rtt.all_time_worst_rtt, id),
          missed |-> IF MapGet(rtt.measure_count, id) <= 0 THEN <<0, 1>>
                     ELSE <<MapGet(rtt.missed_answers, id), rtt.measure_count[id]>>,
          overflow |-> MapGet(rtt.measure_count, id) <= 0]

(* -------------------- specification of the aggregator ------------------ *)

\* The timers and the coordinator do not take part.
InitRtt ==
    /\ InitTimer({1}, {FALSE}, {TRIGGER_STOP_SYMBOL}, 0, FALSE)
    /\ rtt = rtt0

\* The worker measures round after round while one thread calls
\* restart_measurement and stop_measurement and time passes.
NextRtt ==
    \/ RttLoop
    \/ \E r \in RoundResults : RttMeasure(r)
    \/ RttStore
    \/ RttTick
    \/ \E op \in {"restart", "stop"} : CallMeasurement("A", op)
    \/ DestroyStore("A")
    \/ DestroyJoin("A")
    \/ RestartClear("A")
    \/ RestartCreate("A")

SpecRtt == InitRtt /\ [][NextRtt]_vars

(* --------------------- claims on the aggregator (SpecRtt) -------------- *)

\* No thread holds rtt_values_mutex, so that get_rtt can run.
RttUnlocked == rtt.rtt_values_mutex = "free"

\* C14: every successful get_rtt(id) returns 0 <= missed_fraction <= 1 and
\* current_best <= current_worst <= all_time_worst, and all_time_worst is the
\* largest worst value of the response rounds since the entry was created.
C14_GetRttOrdered ==
    \A id \in RttIds :
        (RttUnlocked /\ get_rtt(id).found) =>
            LET g == get_rtt(id)
            IN /\ 0 <= g.missed[1]
               /\ g.missed[1] <= g.missed[2]
               /\ g.missed[2] >= 1
               /\ g.current_best <= g.current_worst
               /\ g.current_worst <= g.all_time_worst
               /\ id \in DOMAIN rtt.hist
               /\ g.all_time_worst = rtt.hist[id].maxWorst

\* C14 witness: after three rounds, one of them silent, the all-time worst
\* is above the current worst of a response round.
C14_Witness ==
    /\ RttUnlocked
    /\ get_rtt("vehicle").found
    /\ get_rtt("vehicle").missed = <<1, 3>>
    /\ get_rtt("vehicle").current_worst = 1
    /\ get_rtt("vehicle").all_time_worst = MaxRtt

\* C15: for every existing entry measure_count is the number of rounds closed
\* since the entry was created and missed_answers the number of those without
\* a response of the class; measured >= 1, missed <= measured - 1, and the
\* measure_count <= 0 guard of get_rtt is not reached.
C15_Counters ==
    \A id \in rtt.received_ids :
        /\ id \in DOMAIN rtt.hist
        /\ id \in DOMAIN rtt.measure_count
        /\ id \in DOMAIN rtt.missed_answers
        /\ rtt.measure_count[id] = rtt.hist[id].rounds
        /\ rtt.missed_answers[id] = rtt.hist[id].silent
        /\ rtt.measure_count[id] >= 1
        /\ rtt.missed_answers[id] <= rtt.measure_count[id] - 1
        /\ ~get_rtt(id).overflow

C15_Witness ==
    /\ "vehicle" \in rtt.received_ids
    /\ rtt.measure_count["vehicle"] = 3
    /\ rtt.missed_answers["vehicle"] = 2

\* The worker closes a round in this step.
RoundClosed == rtt.wpc = "store" /\ rtt'.wpc = "loop"

\* The class has a key in one of the seven containers of s.
HasKey(s, id) ==
    \/ id \in DOMAIN s.current_best_rtt
    \/ id \in DOMAIN s.current_worst_rtt
    \/ id \in DOMAIN s.all_time_worst_rtt
    \/ id \in DOMAIN s.measure_count
    \/ id \in DOMAIN s.missed_answers
    \/ id \in DOMAIN s.last_msg_timestamp
    \/ id \in s.received_ids

\* C16: when a round closes without a response of a known class, the entry
\* is deleted from all seven containers if now - last_seen > the timeout, and
\* get_rtt reports no entry; otherwise the entry stays and the round is
\* counted as measured and missed. An entry appears only by a round that has
\* a response of the class.
C16_Eviction ==
    [][ /\ RoundClosed =>
              \A id \in rtt.received_ids \ DOMAIN rtt.round :
                  IF rtt.now - rtt.last_msg_timestamp[id] > delete_entry_timeout_ns
                  THEN /\ ~HasKey(rtt', id)
                       /\ ~get_rtt(id).found'
                  ELSE /\ get_rtt(id).found'
                       /\ rtt'.measure_count[id] = rtt.measure_count[id] + 1
                       /\ rtt'.missed_answers[id] = rtt.missed_answers[id] + 1
        /\ \A id \in RttIds :
              (~HasKey(rtt, id) /\ HasKey(rtt', id)) =>
                  (RoundClosed /\ id \in DOMAIN rtt.round) ]_vars

\* C16 witness: the entry of a class was evicted and get_rtt reports none.
C16_Witness ==
    /\ "vehicle" \in DOMAIN rtt.evictedWorst
    /\ ~get_rtt("vehicle").found
    /\ rtt.rounds = 2

\* C17: the round that re-creates an evicted entry leaves measure_count = 1,
\* missed_answers = 0 and all_time_worst = the worst value of that round.
C17_Recreation ==
    [][ \A id \in DOMAIN rtt.evictedWorst :
           (id \notin rtt.received_ids /\ id \in rtt'.received_ids) =>
               /\ id \in DOMAIN rtt.round
               /\ rtt'.measure_count[id] = 1
               /\ rtt'.missed_answers[id] = 0
               /\ rtt'.all_time_worst_rtt[id] = rtt.round[id][2]
               /\ rtt'.current_worst_rtt[id] = rtt.round[id][2]
               /\ rtt'.current_best_rtt[id] = rtt.round[id][1] ]_vars

\* C17 witness: a re-created entry whose all-time worst is below the one of
\* the evicted entry.
C17_Witness ==
    /\ "vehicle" \in DOMAIN rtt.evictedWorst
    /\ "vehicle" \in rtt.received_ids
    /\ rtt.all_time_worst_rtt["vehicle"] < rtt.evictedWorst["vehicle"]
    /\ rtt.measure_count["vehicle"] = 1

\* The last call of thread t was restart_measurement and it has returned.
RestartReturned(t) == rtt.op[t] = "restart" /\ rtt.cpc[t] = "idle"

\* C18: restart_measurement joins the old worker before it clears the state
\* and creates the new worker: no worker exists while the state is cleared, the
\* process is not terminated by the creation, after the return one worker runs,
\* get_rtt reports no entry until a round with a response was stored, and no
\* round that started before a restart is stored after it.
C18_Restart ==
    /\ ~rtt.terminated
    /\ ~rtt.staleStored
    /\ \A t \in RttCallers :
          /\ rtt.cpc[t] \in {"clear", "create"} =>
                (rtt.check_rtt_thread = "none" /\ rtt.wpc = "none")
          /\ RestartReturned(t) =>
                /\ rtt.check_rtt_thread = "joinable"
                /\ rtt.wpc \in {"loop", "measure", "store"}
                /\ rtt.run_rtt_thread
                /\ rtt.roundEpoch = rtt.epoch \/ rtt.wpc = "loop"
                /\ ~rtt.storedSinceRestart =>
                      \A id \in RttIds : ~get_rtt(id).found

\* C18 witness: restart_measurement was called after stop_measurement on an
\* aggregator that had entries, has returned, and the new worker has stored a
\* round with a response.
C18_Witness ==
    /\ RestartReturned("A")
    /\ rtt.calls = 2
    /\ rtt.rounds = 3
    /\ rtt.storedSinceRestart
    /\ get_rtt("vehicle").found

\* The seven per-class containers.
Containers(s) ==
    <<s.current_best_rtt, s.current_worst_rtt, s.all_time_worst_rtt,
      s.measure_count, s.missed_answers, s.last_msg_timestamp, s.received_ids>>

\* The worker has been joined by stop_measurement and restart_measurement was
\* not called since.
Frozen == rtt.op["A"] = "stop" /\ rtt.check_rtt_thread = "none"

\* C35: once stop_measurement has joined the worker, no worker runs, and
\* until restart_measurement is called the seven containers and the answer of
\* get_rtt stay what they were at the join, while time passes and while
\* stop_measurement is called again.
C35_StopFreezes ==
    /\ [](Frozen => (rtt.wpc = "none" /\ ~rtt.run_rtt_thread /\ ~rtt.terminated))
    /\ [][ (Frozen /\ Frozen') =>
              /\ Containers(rtt') = Containers(rtt)
              /\ \A id \in RttIds : get_rtt(id)' = get_rtt(id) ]_vars

\* C35 witness: a second stop_measurement has returned and the entry of a
\* class is still reported although its last response is older than the
\* eviction timeout.
C35_Witness ==
    /\ Frozen
    /\ rtt.calls = 2
    /\ rtt.cpc["A"] = "idle"
    /\ get_rtt("vehicle").found
    /\ rtt.now - rtt.last_msg_timestamp["vehicle"] > delete_entry_timeout_ns

(* --------- the aggregator called from two threads (SpecRttShared) ------ *)

\* Threads A and B both call restart_measurement and stop_measurement while
\* the worker measures.
NextRttShared ==
    \/ RttLoop
    \/ \E r \in RoundResults : RttMeasure(r)
    \/ RttStore
    \/ RttTick
    \/ \E t \in RttCallers, op \in {"restart", "stop"} : CallMeasurement(t, op)
    \/ \E t \in RttCallers : DestroyStore(t)
    \/ \E t \in RttCallers : DestroyJoin(t)
    \/ \E t \in RttCallers : RestartClear(t)
    \/ \E t \in RttCallers : RestartCreate(t)

SpecRttShared == InitRtt /\ [][NextRttShared]_vars

\* Thread t executes create_rtt_thread in this step: the new std::thread is
\* constructed and assigned to check_rtt_thread.
CreatesWorker(t) ==
    rtt.cpc[t] = "create" /\ (rtt'.cpc[t] # "create" \/ rtt'.terminated)

MaxTicks == 4

HlcCallbacks ==
    {"on_first_timestep", "on_each_timestep", "on_cancel_timestep", "on_stop"}

\* The callbacks the Coordinator's own thread invokes and waits for; an
\* on_each_timestep invocation is a task of its own (planning_future).
HlcSynchronous == HlcCallbacks \ {"on_each_timestep"}

\* onFirstTimestep, onEachTimestep, onCancelTimestep, onStop: the callback is
\* stored; all four are optional and are set before start().
HlcSet(name) ==
    /\ hlc.state = "IDLE"
    /\ ~hlc[name]
    /\ hlc' = [hlc EXCEPT ![name] = TRUE]
    /\ UNCHANGED <<timerVars, rtt>>

\* The Coordinator's thread executes no callback and can take its next step.
CoordinatorFreeAlways(s) == TRUE

CoordinatorFree(s) == s.cpc = "free"

\* A STOP trigger or stop() is acted on in every state but the two that
\* follow it: both are idempotent.
MayStopAlways(state) == TRUE

MayStop(state) == state \notin {"STOPPING", "EXIT"}

\* The invocation of a callback begins, for tick k (0 for the callbacks that
\* belong to no tick).
Begin(s, name, k) ==
    [s EXCEPT !.executing = @ \cup {<<name, k>>},
              !.stops = IF name = "on_stop" THEN @ + 1 ELSE @,
              !.beganAfterStop = @ \/ (name # "on_stop" /\ s.stops > 0),
              !.firsts = IF name = "on_first_timestep" THEN @ + 1 ELSE @,
              !.firstLate = @ \/ (name = "on_first_timestep" /\ s.started # <<>>),
              !.started = IF name = "on_each_timestep" THEN Append(@, k) ELSE @,
              !.fresh = @ /\ (name = "on_each_timestep" => s.new_vehicleStateList)]

\* The invocation returns.
End(s, name, k) == [s EXCEPT !.executing = @ \ {<<name, k>>}]

\* start(): the Coordinator waits for the first VehicleStateList.
HlcStart ==
    /\ hlc.state = "IDLE"
    /\ hlc' = [hlc EXCEPT !.state = "WAIT_FIRST_SNAPSHOT"]
    /\ UNCHANGED <<timerVars, rtt>>

\* A VehicleStateList arrives from the middleware.
HlcVehicleStateList ==
    /\ hlc.state \in {"WAIT_FIRST_SNAPSHOT", "READY_FOR_TICK", "PLANNING",
                      "CANCELLING"}
    /\ ~hlc.new_vehicleStateList
    /\ hlc' = [hlc EXCEPT !.new_vehicleStateList = TRUE,
                          !.state = IF @ = "WAIT_FIRST_SNAPSHOT"
                                    THEN "READY_FOR_TICK" ELSE @]
    /\ UNCHANGED <<timerVars, rtt>>

\* first_timestep once the first timestep was taken.
AfterFirstKept(first_timestep) == first_timestep

AfterFirst(first_timestep) == FALSE

\* The planning step of tick s.tick is launched as a task of its own, with
\* the VehicleStateList just read.
Launch(s) ==
    IF s.on_each_timestep
    THEN [Begin(s, "on_each_timestep", s.tick) EXCEPT
             !.first_timestep = AfterFirst(@),
             !.new_vehicleStateList = FALSE, !.cpc = "free",
             !.state = "PLANNING", !.planning_future = s.tick]
    ELSE [s EXCEPT !.first_timestep = AfterFirst(@),
                   !.new_vehicleStateList = FALSE, !.cpc = "free"]

\* A tick with the Coordinator ready: without a new VehicleStateList the tick
\* is skipped silently; otherwise on_first_timestep is invoked on the first
\* timestep, and the planning step is launched.
HlcTick ==
    /\ hlc.state = "READY_FOR_TICK"
    /\ CoordinatorFree(hlc)
    /\ hlc.tick < MaxTicks
    /\ LET s == [hlc EXCEPT !.tick = @ + 1]
       IN hlc' = IF ~hlc.new_vehicleStateList THEN s
                 ELSE IF hlc.first_timestep /\ hlc.on_first_timestep
                      THEN [Begin(s, "on_first_timestep", 0) EXCEPT
                               !.cpc = "on_first_timestep"]
                      ELSE Launch(s)
    /\ UNCHANGED <<timerVars, rtt>>

\* on_first_timestep returns and the first planning step is launched.
HlcFirstReturn ==
    /\ hlc.cpc = "on_first_timestep"
    /\ hlc' = Launch(End(hlc, "on_first_timestep", 0))
    /\ UNCHANGED <<timerVars, rtt>>

\* The planning task of tick k returns, within its period or after it was
\* cancelled; only the task planning_future refers to changes the state.
HlcPlanningDone(k) ==
    /\ <<"on_each_timestep", k>> \in hlc.executing
    /\ hlc' = [End(hlc, "on_each_timestep", k) EXCEPT
                  !.state = IF @ = "PLANNING" /\ hlc.planning_future = k
                            THEN "READY_FOR_TICK" ELSE @]
    /\ UNCHANGED <<timerVars, rtt>>

\* An overrun is answered by on_cancel_timestep when that callback is set.
MustCancelNever(s) == FALSE

MustCancel(s) == s.on_cancel_timestep

\* The next period boundary with the planning task still running: with
\* on_cancel_timestep set the Coordinator invokes it synchronously; without
\* it the overrun goes into a later start of the next planning step.
HlcOverrun ==
    /\ hlc.state = "PLANNING"
    /\ CoordinatorFree(hlc)
    /\ <<"on_each_timestep", hlc.planning_future>> \in hlc.executing
    /\ hlc.tick < MaxTicks
    /\ LET s == [hlc EXCEPT !.tick = @ + 1]
       IN hlc' = IF MustCancel(hlc)
                 THEN [Begin(s, "on_cancel_timestep", 0) EXCEPT
                          !.state = "CANCELLING",
                          !.cpc = "on_cancel_timestep",
                          !.cancelled = @ \cup {hlc.planning_future}]
                 ELSE s
    /\ UNCHANGED <<timerVars, rtt>>

\* on_cancel_timestep returns: the Coordinator is ready for the next tick
\* while the cancelled task may complete in the background.
HlcCancelReturn ==
    /\ hlc.cpc = "on_cancel_timestep"
    /\ hlc' = [End(hlc, "on_cancel_timestep", 0) EXCEPT
                  !.cpc = "free", !.state = "READY_FOR_TICK"]
    /\ UNCHANGED <<timerVars, rtt>>

\* A STOP trigger arrives or stop() is called.
HlcStopSignal ==
    /\ ~hlc.stop_pending
    /\ hlc.state # "EXIT"
    /\ hlc' = [hlc EXCEPT !.stop_pending = TRUE]
    /\ UNCHANGED <<timerVars, rtt>>

\* The Coordinator enters STOPPING and invokes on_stop if it is set.
Stopping(s) ==
    IF s.on_stop
    THEN [Begin(s, "on_stop", 0) EXCEPT !.state = "STOPPING", !.cpc = "on_stop"]
    ELSE [s EXCEPT !.state = "STOPPING", !.cpc = "free"]

\* any state --STOP trigger or stop()--> STOPPING.
HlcStopping ==
    /\ hlc.stop_pending
    /\ MayStop(hlc.state)
    /\ CoordinatorFree(hlc)
    /\ hlc' = Stopping(hlc)
    /\ UNCHANGED <<timerVars, rtt>>

\* STOPPING -> on_stop -> EXIT.
HlcStopReturn ==
    /\ hlc.state = "STOPPING"
    /\ hlc.cpc \in {"free", "on_stop"}
    /\ hlc' = [End(hlc, "on_stop", 0) EXCEPT !.state = "EXIT", !.cpc = "free"]
    /\ UNCHANGED <<timerVars, rtt>>

\* A failure inside on_first_timestep or on_cancel_timestep is fatal: the
\* Coordinator invokes on_stop (if set) and exits.
HlcCallbackFails ==
    /\ hlc.cpc \in {"on_first_timestep", "on_cancel_timestep"}
    /\ hlc' = Stopping(End(hlc, hlc.cpc, 0))
    /\ UNCHANGED <<timerVars, rtt>>

InitHlc ==
    /\ InitTimer({1}, {FALSE}, {TRIGGER_STOP_SYMBOL}, 0, FALSE)
    /\ hlc = hlc0

\* The user sets callbacks and starts the Coordinator; VehicleStateLists,
\* period boundaries and a stop arrive while planning tasks take their time.
NextHlc ==
    \/ \E name \in HlcCallbacks : HlcSet(name)
    \/ HlcStart
    \/ HlcVehicleStateList
    \/ HlcTick
    \/ HlcFirstReturn
    \/ \E k \in 1..MaxTicks : HlcPlanningDone(k)
    \/ HlcOverrun
    \/ HlcCancelReturn
    \/ HlcStopSignal
    \/ HlcStopping
    \/ HlcStopReturn
    \/ HlcCallbackFails

SpecHlc == InitHlc /\ [][NextHlc]_vars

(* --------------------- claims on the Coordinator (SpecHlc) ------------- *)

\* on_stop has begun at least once.
StopStarted == hlc.stops > 0

\* on_stop is invoked at most once, and exactly once if it is set and the
\* Coordinator has exited.
StopCount ==
    /\ hlc.stops <= 1
    /\ (hlc.state = "EXIT" /\ hlc.on_stop) => hlc.stops = 1

C20_NoConcurrentCallbacks == Cardinality(hlc.executing) <= 1

\* C20, amended: the callbacks the Coordinator invokes synchronously
\* (on_first_timestep, on_cancel_timestep, on_stop) never execute at the same
\* time as one another, on_first_timestep executes at the same time as no
\* callback, and at most one planning task that was not cancelled executes
\* on_each_timestep; a planning task may execute at the same time as
\* on_cancel_timestep, on_stop and, once cancelled, a later planning task.
C20_SynchronousCallbacks ==
    /\ Cardinality({e \in hlc.executing : e[1] \in HlcSynchronous}) <= 1
    /\ Cardinality({e \in hlc.executing :
                       e[1] = "on_each_timestep" /\ e[2] \notin hlc.cancelled}) <= 1
    /\ <<"on_first_timestep", 0>> \in hlc.executing =>
          hlc.executing = {<<"on_first_timestep", 0>>}

\* C20 witness: the planning task of the first tick overran and was cancelled,
\* and it still executes while the planning task of a later tick executes and
\* on_cancel_timestep is invoked for that one.
C20_Witness ==
    /\ hlc.cancelled = {1, hlc.planning_future}
    /\ hlc.planning_future > 1
    /\ hlc.executing = { <<"on_each_timestep", 1>>,
                         <<"on_each_timestep", hlc.planning_future>>,
                         <<"on_cancel_timestep", 0>> }

\* The ticks of the sequence are strictly increasing.
StrictlyIncreasing(q) == \A i \in 1..(Len(q) - 1) : q[i] < q[i + 1]

\* C21: on_first_timestep is invoked at most once per run and has returned
\* before the first on_each_timestep invocation begins; on_each_timestep
\* invocations begin in strictly increasing tick order.
C21_FirstThenEach ==
    /\ hlc.firsts <= 1
    /\ ~hlc.firstLate
    /\ <<"on_first_timestep", 0>> \in hlc.executing => hlc.started = <<>>
    /\ (hlc.started # <<>> /\ hlc.on_first_timestep) => hlc.firsts = 1
    /\ StrictlyIncreasing(hlc.started)

\* C21 witness: on_first_timestep was invoked once and has returned, and two
\* planning steps were started after it.
C21_Witness ==
    /\ hlc.firsts = 1
    /\ <<"on_first_timestep", 0>> \notin hlc.executing
    /\ Len(hlc.started) = 2
    /\ hlc.state = "PLANNING"

\* C22: with on_cancel_timestep set, a planning task that is still running
\* after the period boundary that follows its tick was cancelled at that
\* boundary by an invocation of on_cancel_timestep; after the cancellation the
\* Coordinator is READY_FOR_TICK again (or stopping), and the planning steps
\* it starts then belong to a later tick and begin with a new
\* VehicleStateList.
C22_OverrunRecovers ==
    hlc.on_cancel_timestep =>
        /\ \A e \in hlc.executing :
              (e[1] = "on_each_timestep" /\ hlc.tick > e[2]) =>
                  e[2] \in hlc.cancelled
        /\ hlc.state = "CANCELLING" <=>
              <<"on_cancel_timestep", 0>> \in hlc.executing
        /\ hlc.state = "CANCELLING" => hlc.planning_future \in hlc.cancelled
        /\ hlc.state = "PLANNING" =>
              /\ hlc.planning_future \notin hlc.cancelled
              /\ \A k \in hlc.cancelled : k < hlc.planning_future
        /\ hlc.planning_future \in hlc.cancelled =>
              hlc.state \in {"CANCELLING", "READY_FOR_TICK", "STOPPING", "EXIT"}
        /\ hlc.fresh

\* C22 witness: the planning task of the first tick runs for more than two
\* periods; it was cancelled at the second boundary, on_cancel_timestep has
\* returned, and the Coordinator plans the third tick while the old task
\* still runs.
C22_Witness ==
    /\ hlc.on_cancel_timestep
    /\ hlc.cancelled = {1}
    /\ hlc.started = <<1, 3>>
    /\ hlc.state = "PLANNING"
    /\ hlc.executing = {<<"on_each_timestep", 1>>, <<"on_each_timestep", 3>>}

(* ====================================================================== *)
(* Part 5: construction of the timers.                                    *)
(* ====================================================================== *)

\* TimerFD::TimerFD, line 38: the constructor goes on unless
\* offset_nanoseconds >= period_nanoseconds.
TimerFDAcceptsEqual(period, offset) == ~(offset > period)

TimerFDAccepts(period, offset) == ~(offset >= period)

\* TimerSimulated::TimerSimulated, line 30: no check of the offset
\* ("Offset is allowed to be greater than period!").
TimerSimulatedRejectsLate(period, offset) == offset < period

TimerSimulatedAccepts(period, offset) == TRUE

\* The constructor of class runs on thread t with the arguments held by the
\* configuration variables (the member initialisers have stored them): it
\* ends the process with exit(EXIT_FAILURE) or stores false in active and
\* cancelled and returns the object.
Construct(t, class, accepts) ==
    /\ pc[t] = "construct"
    /\ ~terminated
    /\ IF accepts
       THEN /\ active' = FALSE
            /\ cancelled' = FALSE
            /\ pc' = [pc EXCEPT ![t] = "idle"]
            /\ result' = [result EXCEPT ![t] = class]
            /\ UNCHANGED terminated
       ELSE /\ terminated' = TRUE
            /\ pc' = [pc EXCEPT ![t] = "exit"]
            /\ result' = [result EXCEPT ![t] = "EXIT_FAILURE"]
            /\ UNCHANGED <<active, cancelled>>
    /\ obs' = [obs EXCEPT !.class = class]
    /\ UNCHANGED <<sim, compVars, cfgVars, start_point, start_point_initialized,
                   m_update_callback, m_stop_callback, runner_thread, join_mutex,
                   timer_fd, envVars, deadline, cbArg, stopRet>>

ConstructTimerFD(t) ==
    Construct(t, "TimerFD", TimerFDAccepts(period_nanoseconds, offset_nanoseconds))

ConstructTimerSimulated(t) ==
    Construct(t, "TimerSimulated",
              TimerSimulatedAccepts(period_nanoseconds, offset_nanoseconds))

\* Thread A is about to construct a timer: any period and offset, the flags
\* not yet initialised.
InitConstruct ==
    /\ period_nanoseconds \in 0..MaxPeriod
    /\ offset_nanoseconds \in 0..(MaxPeriod + 1)
    /\ wait_for_start \in BOOLEAN
    /\ stop_signal = TRIGGER_STOP_SYMBOL
    /\ active \in BOOLEAN
    /\ cancelled \in BOOLEAN
    /\ start_point = 0
    /\ start_point_initialized = FALSE
    /\ m_update_callback = "none"
    /\ m_stop_callback = "none"
    /\ runner_thread = "none"
    /\ join_mutex = "free"
    /\ timer_fd = [state |-> "none", expired |-> FALSE]
    /\ reader_system_trigger = <<>>
    /\ now = 0
    /\ pc = [t \in Threads |-> IF t = "A" THEN "construct" ELSE "idle"]
    /\ deadline = [t \in Threads |-> 0]
    /\ cbArg = [t \in Threads |-> "none"]
    /\ stopRet = [t \in Threads |-> "idle"]
    /\ result = [t \in Threads |-> "none"]
    /\ terminated = FALSE
    /\ obs = [obs0(FALSE) EXCEPT !.class = "none"]
    /\ sim = sim0
    /\ rtt = rtt0
    /\ hlc = hlc0
    /\ simple = simple0

NextConstruct ==
    \/ ConstructTimerFD("A")
    \/ ConstructTimerSimulated("A")

SpecConstruct == InitConstruct /\ [][NextConstruct]_vars

\* The constructor of class was run.
Constructing(class) == obs.class = class

\* C23: the construction of an RT-Timer yields a timer object (flags false)
\* exactly if offset_ns < period_ns, so never for period_ns = 0, and otherwise
\* ends the process without an object; the construction of a Sim-Timer
\* yields a timer object for every offset.
C23_Construction ==
    /\ Constructing("TimerFD") =>
          IF offset_nanoseconds < period_nanoseconds
          THEN /\ result["A"] = "TimerFD"
               /\ pc["A"] = "idle"
               /\ ~terminated
               /\ ~active /\ ~cancelled
               /\ period_nanoseconds # 0
          ELSE /\ result["A"] = "EXIT_FAILURE"
               /\ pc["A"] = "exit"
               /\ terminated
    /\ Constructing("TimerSimulated") =>
          /\ result["A"] = "TimerSimulated"
          /\ pc["A"] = "idle"
          /\ ~terminated
          /\ ~active /\ ~cancelled

\* C23 witness: a Sim-Timer was constructed with an offset above its period.
C23_Witness ==
    /\ Constructing("TimerSimulated")
    /\ result["A"] = "TimerSimulated"
    /\ offset_nanoseconds > period_nanoseconds
    /\ period_nanoseconds > 0

(* ====================================================================== *)
(* Part 6: the ReadyStatus messages of both timers.                       *)
(* ====================================================================== *)

\* The timer of the run is an RT-Timer that negotiates its start, or a
\* Sim-Timer.
InitReady ==
    \/ InitTimer({MaxPeriod - 1}, {TRUE}, {TRIGGER_STOP_SYMBOL}, MaxPeriod - 1, TRUE)
    \/ InitSim

\* The members of S if the timer of the run is of the class, else none.
OfClass(class, S) == IF obs.class = class THEN S ELSE {}

\* One start of the timer, by the steps of its class: those of NextTick for
\* an RT-Timer, those of NextSim for a Sim-Timer.
NextReady ==
    \/ \E hook \in BOOLEAN : obs.calls = 0 /\ CallStart("A", hook)
    \/ \E t \in OfClass("TimerFD", {"A"}) : StartStep(t)
    \/ \E v \in OfClass("TimerFD", SampleValues) : Publish(v)
    \/ \E t \in OfClass("TimerFD", {"A"}) : Tick
    \/ \E hook \in OfClass("TimerSimulated", BOOLEAN) :
          obs.calls = 0 /\ CallStartAsync("A", hook)
    \/ \E t \in OfClass("TimerSimulated", {"B"}) : obs.calls = 1 /\ CallStop(t)
    \/ \E t \in OfClass("TimerSimulated", {"A", Worker}) : SimStartStep(t)
    \/ \E t \in OfClass("TimerSimulated", {"B"}) : StopStep(t)
    \/ \E t \in OfClass("TimerSimulated", {"A"}) : CoordinatorPublish

SpecReady == InitReady /\ [][NextReady]_vars

\* C24 as stated: a ReadyStatus carries next_start_stamp = 0 exactly if no
\* tick was dispatched to the callback before it was published.
C24_ZeroIffNotStarted == ~obs.stampZeroLate /\ ~obs.stampEarly

\* The stamps a Sim-Timer has written after n ReadyStatus messages of which the
\* last c followed a callback: its expected deadline, i.e. the offset until
\* the first tick and d + P after the tick for d.
SimStamps(n, c) ==
    [i \in 1..n |-> IF i <= n - c THEN offset_nanoseconds
                    ELSE Add(offset_nanoseconds, Mul(i - (n - c), period_nanoseconds))]

\* C24, amended: within one start() every ReadyStatus of an RT-Timer carries
\* next_start_stamp = 0 and is published before the first tick is dispatched;
\* every ReadyStatus of a Sim-Timer carries the deadline the timer expects
\* next: offset_ns while no tick was dispatched (0 only for offset 0), and
\* d + P after the tick for d.
C24_StampIsExpectedDeadline ==
    /\ obs.class = "TimerFD" =>
          /\ \A m \in obs.readyWritten : m.next_start_stamp = 0
          /\ ~obs.stampZeroLate
          /\ ~obs.stampEarly
          /\ sim.writer_ready_status = <<>>
    /\ obs.class = "TimerSimulated" =>
          /\ obs.cbDone <= Len(sim.writer_ready_status)
          /\ sim.writer_ready_status =
                SimStamps(Len(sim.writer_ready_status), obs.cbDone)
          /\ obs.stampEarly <=>
                (offset_nanoseconds # 0 /\ sim.writer_ready_status # <<>>)

\* C24 witness: a Sim-Timer with a non-zero offset has published its offset
\* before its first tick and offset + P after it.
C24_Witness ==
    /\ obs.class = "TimerSimulated"
    /\ offset_nanoseconds = 1
    /\ obs.cbDone = 1
    /\ sim.writer_ready_status = <<1, 1 + period_nanoseconds>>

\* C25 as stated: with and without a stop callback, stop signals after the
\* first have no effect: no second invocation of the stop callback and no
\* update callback after the first stop signal the running timer has seen.
C25_StopIdempotent ==
    /\ obs.stopSeen <= 1
    /\ obs.hookCount <= 1
    /\ ~obs.cbAfterStopSeen

\* C25, amended: without a stop callback the first stop signal that the
\* running timer sees clears active, no update callback and no further take()
\* with a stop signal follow it, whatever is delivered later; with a stop
\* callback the timer stays active and the stop callback is invoked once for
\* every take() of the running timer that holds a stop signal.
C25_StopOnceWithoutHook ==
    /\ m_stop_callback = "none" =>
          /\ obs.stopSeen <= 1
          /\ obs.hookCount = 0
          /\ ~obs.cbAfterStopSeen
          /\ obs.stopSeen = 1 => ~active
    /\ m_stop_callback # "none" => obs.hookCount = obs.stopSeen

\* C25 witness: a Sim-Timer without a stop callback saw the first of two
\* stop signals, is inactive and has returned from start() with the second
\* stop signal delivered.
C25_Witness ==
    /\ obs.class = "TimerSimulated"
    /\ m_stop_callback = "none"
    /\ obs.script = <<TRIGGER_STOP_SYMBOL, TRIGGER_STOP_SYMBOL>>
    /\ sim.coordinator = <<>>
    /\ obs.stopSeen = 1
    /\ ~active
    /\ SimExited

(* ====================================================================== *)
(* Part 7: the stop symbol as a trigger value.                            *)
(* ====================================================================== *)

\* An RT-Timer constructed with a stop_signal of its own (the value below
\* TRIGGER_STOP_SYMBOL), or a Sim-Timer whose offset is one period below
\* TRIGGER_STOP_SYMBOL or TRIGGER_STOP_SYMBOL itself.
InitSentinel ==
    \/ InitTimer({MaxPeriod - 1}, {TRUE}, {TRIGGER_STOP_SYMBOL - 1}, MaxPeriod - 1, TRUE)
    \/ InitSimAt({TRIGGER_STOP_SYMBOL - (MaxPeriod - 1), TRIGGER_STOP_SYMBOL})

SpecSentinel == InitSentinel /\ [][NextReady]_vars

\* C26: a SystemTrigger with next_start = 2^64 - 1 is never taken as the
\* start instant of an RT-Timer and never matches the deadline of a Sim-Timer,
\* so it never causes an update-callback invocation.
C26_SentinelNeverStart ==
    /\ start_point_initialized => start_point # TRIGGER_STOP_SYMBOL
    /\ \A i \in 1..Len(obs.simSeen) :
          ~(obs.simSeen[i][1] = TRIGGER_STOP_SYMBOL
               /\ obs.simSeen[i][2] = TRIGGER_STOP_SYMBOL)
    /\ \A i \in 1..Len(obs.simCb) : obs.simCb[i] # TRIGGER_STOP_SYMBOL

(***************************************************************************)
(* Part 8: cpm::SimpleTimer (cpm_lib/include/cpm/SimpleTimer.hpp). The     *)
(* header declares the internal TimerFD with its 50 ms interval, the       *)
(* counter, counter_max and simple_timer_callback; the definitions of the  *)
(* constructor, of start(), stop() and simple_timer_callback are modelled  *)
(* from the header's description: the internal timer has the period 50 ms  *)
(* and the offset 0, counter_max is the period divided by 50 ms and rounded *)
(* up, every internal tick increments the counter, and the tick on which   *)
(* it reaches counter_max calls the user callback and resets it; start()   *)
(* and stop() are the internal timer's. One unit of time is 50/3 ms.       *)
(***************************************************************************)

\* Largest period of a SimpleTimer, in units of 50/3 ms.
MaxSimplePeriod == 5
\* Last instant of the clock in the runs of the SimpleTimer.
MaxSimpleTime == 12

\* SimpleTimer.hpp line 34: the interval of the internal timer, 50 ms.
fifty_ms == 3

\* Mutant of CounterMax: the period is rounded down.
CounterMaxFloor(period) == period \div fifty_ms

\* SimpleTimer.hpp lines 31-32: counter_max, the period in 50 ms intervals,
\* rounded up.
CounterMax(period) == (period + fifty_ms - 1) \div fifty_ms

\* SimpleTimer::SimpleTimer: counter_max is computed; the internal TimerFD has
\* been created with the period fifty_ms.
SimpleConstruct(period) ==
    /\ ~simple.constructed
    /\ simple' = [simple EXCEPT !.constructed = TRUE,
                                !.period_milliseconds = period,
                                !.counter_max = CounterMax(period)]
    /\ UNCHANGED <<cfgVars, memVars, envVars, thrVars, obs, sim, rtt, hlc>>

\* SimpleTimer::simple_timer_callback (SimpleTimer.hpp lines 29-32 and
\* 41-42), the update callback of the internal timer: the counter is
\* incremented, and when it has reached counter_max it is reset and the user
\* callback is called with t_now.
simple_timer_callback(t) ==
    /\ ~terminated
    /\ pc[t] = "in_cb"
    /\ simple.ticks < obs.cbCount
    /\ LET counter == simple.internal_timer_counter + 1
           reached == counter >= simple.counter_max
       IN simple' = [simple EXCEPT
                        !.internal_timer_counter = IF reached THEN 0 ELSE counter,
                        !.ticks = @ + 1,
                        !.fired = reached,
                        !.cbs = IF reached
                                THEN Append(@, <<deadline[t], now, simple.ticks + 1>>)
                                ELSE @]
    /\ UNCHANGED <<cfgVars, memVars, envVars, thrVars, obs, sim, rtt, hlc>>

\* simple_timer_callback has handled the internal tick in execution.
Handled == simple.ticks = obs.cbCount

\* A SimpleTimer with wait_for_start true or false: its internal TimerFD has
\* the period fifty_ms and the offset 0.
InitSimple ==
    /\ InitTimer({fifty_ms}, BOOLEAN, {TRIGGER_STOP_SYMBOL}, 0, TRUE)
    /\ offset_nanoseconds = 0

\* The triggers the coordinator answers a waiting SimpleTimer with: a start
\* instant off the 50 ms grid, one ahead of the clock, and the stop symbol.
SimpleTriggers == {1, MaxStart, TRIGGER_STOP_SYMBOL}

\* The timer is constructed and started once with a blocking start(); the
\* user callback may call stop(); the coordinator answers the timer while it
\* waits for its start signal, and time passes.
NextSimple ==
    \/ \E period \in 1..MaxSimplePeriod : SimpleConstruct(period)
    \/ simple.constructed /\ obs.calls = 0 /\ CallStart("A", FALSE)
    \/ StartCheck("A")
    \/ StartSet("A")
    \/ StartCancelled("A")
    \/ NegLoop("A")
    \/ NegWrite("A")
    \/ NegTake("A")
    \/ Loop("A")
    \/ Wait("A")
    \/ simple_timer_callback("A")
    \/ Handled /\ simple.fired /\ CallStopInCallback("A")
    \/ StopStep("A")
    \/ Handled /\ CbReturn("A")
    \/ /\ InNegotiation("A")
       /\ reader_system_trigger = <<>>
       /\ \E v \in SimpleTriggers : Publish(v)
    \/ TickUpTo(MaxSimpleTime)

SpecSimple == InitSimple /\ [][NextSimple]_vars

(* --------------------- further claims on the life cycle (SpecLife) ----- *)

\* C27: a start call that is rejected with ErrorTimerStart has not stored a
\* stop callback in place of the one registered before the call (the flags,
\* the deadline and the update callback are left alone too).
C27_RejectedStartKeepsHook ==
    \A t \in AppThreads :
        result[t] = "ErrorTimerStart" => t \notin obs.hookReplaced

\* C28: after a stop() that was called from another thread while start() was
\* in its main loop has returned, and with no start call made since, the
\* update callback is not invoked again.
C28_NoCallbackAfterStop == ~obs.cbAfterReturn

\* C29: the start negotiation of TimerFD writes no ReadyStatus once a stop()
\* of the timer has cleared active and returned.
C29_NoReadyAfterStop == ~obs.readyStopped

\* The other clauses of C29, for one start() without a concurrent stop()
\* (SpecTick): every ReadyStatus has the stamp 0 and the node id, one is
\* written before the first take(), one more after each wait without a valid
\* sample (counted up to MaxReady), none after a valid sample, none without
\* wait_for_start.
NegotiationReady ==
    /\ obs.readyWritten \subseteq {[next_start_stamp |-> 0, source_id |-> "node_id"]}
    /\ pc["A"] = "neg_take" \/ obs.firstSample # NoSample => obs.ready = obs.emptyWaits + 1
    /\ pc["A"] = "neg_write" => obs.ready = obs.emptyWaits \/ obs.ready = MaxReady
    /\ ~obs.readyLate
    /\ ~wait_for_start => obs.ready = 0

(* --------------------- further claims on the tick sequence (SpecTick) -- *)

\* The smallest multiple of P that is >= S.
FirstMultipleFrom(S, P) == ((S + P - 1) \div P) * P

\* C32 as stated: with offset 0 the first callback deadline equals the start
\* instant, for every start instant.
C32_FirstDeadlineIsStart ==
    \A t \in Threads :
        (offset_nanoseconds = 0 /\ InMainLoop(t) /\ obs.cbCount = 0) =>
            deadline[t] = start_point

\* C32 amended: with offset 0 the first callback deadline is the smallest
\* multiple of the period that is >= the start instant S (modulo 2^64 when
\* that multiple is not below 2^64); it equals S exactly when S is a multiple
\* of the period, and it is the deadline the first callback is invoked with.
C32_FirstDeadlineAtBoundary ==
    \A t \in Threads :
        (offset_nanoseconds = 0 /\ InMainLoop(t) /\ obs.cbCount <= 1) =>
            LET first == FirstMultipleFrom(start_point, period_nanoseconds) % Modulus
            IN /\ obs.cbCount = 0 => deadline[t] = first
               /\ obs.cbCount = 1 => obs.cbCur = first
               /\ first = start_point <=> start_point % period_nanoseconds = 0

\* C32 witness: a timer with offset 0 whose start instant is no multiple of
\* the period executes its first callback, with a deadline after the start
\* instant.
C32_Witness ==
    /\ offset_nanoseconds = 0
    /\ pc["A"] = "in_cb"
    /\ obs.cbCount = 1
    /\ start_point % period_nanoseconds # 0
    /\ obs.cbCur > start_point
    /\ obs.cbCur < start_point + period_nanoseconds

(* ------------------- claims on the SimpleTimer (SpecSimple) ------------ *)

\* The number of 50 ms intervals that cover the period.
Intervals(period) ==
    CHOOSE k \in 1..period : k * fifty_ms >= period /\ (k - 1) * fifty_ms < period

\* C36 as stated, the clause on the first deadline: the first user callback
\* is invoked with a deadline of at most S + period.
C36_FirstWithinPeriod ==
    simple.cbs # <<>> => simple.cbs[1][1] <= start_point + simple.period_milliseconds

\* C36 amended: the user callback is invoked on every counter_max-th internal
\* tick, with counter_max the number of 50 ms intervals that cover the
\* period; its i-th invocation (i = 0, 1, ...) is not before S + i * period;
\* as long as no internal period was missed the first deadline is the first
\* 50 ms boundary >= S plus counter_max - 1 intervals, which is less than
\* S + counter_max * 50 ms; and after a stop() from inside the callback the
\* timer is inactive and start() returns without a further callback.
C36_EveryCounterMaxTick ==
    LET K == Intervals(simple.period_milliseconds)
        S == start_point
    IN /\ \A i \in 1..Len(simple.cbs) :
             /\ simple.cbs[i][3] = i * K
             /\ simple.cbs[i][2] >= S + (i - 1) * simple.period_milliseconds
       /\ (simple.cbs # <<>> /\ obs.missed = 0) =>
             /\ simple.cbs[1][1] = FirstMultipleFrom(S, fifty_ms) + (K - 1) * fifty_ms
             /\ simple.cbs[1][1] < S + K * fifty_ms
       /\ "A" \in obs.stopInCb =>
             /\ pc["A"] \in {"stop_lock", "stop_active", "stop_join", "stop_reset",
                              "in_cb", "loop", "idle"}
             /\ pc["A"] \in {"in_cb", "loop", "idle"} => ~active
             /\ simple.ticks = simple.cbs[Len(simple.cbs)][3]

\* C36 witness: a SimpleTimer whose period is no multiple of 50 ms and covers
\* two intervals was started by a trigger off the 50 ms grid, has called the
\* user callback twice, the second call stopped it, and start() has returned.
C36_Witness ==
    /\ simple.period_milliseconds % fifty_ms # 0
    /\ simple.counter_max = 2
    /\ wait_for_start
    /\ start_point % fifty_ms # 0
    /\ Len(simple.cbs) = 2
    /\ "A" \in obs.stopInCb
    /\ pc["A"] = "idle"
    /\ result["A"] = "returned"

(* ------------------- the active flag (SpecTick) ------------------------ *)

\* No call of start() or stop() is in execution on the timer.
NoCallInExecution == \A t \in Threads : pc[t] \in {"idle", "exited"}

\* C37: the active flag is true only while a start() call is executing:
\* whenever start() has returned, for whatever reason, and no call is in
\* execution on the instance, active is false.
C37_ActiveOnlyInStart ==
    (~terminated /\ NoCallInExecution) => ~active

(* ------------- the key sets of the aggregator (SpecRtt) ---------------- *)

\* The key set of the i-th of the seven containers.
KeySet(s, i) == IF i = 7 THEN Containers(s)[7] ELSE DOMAIN Containers(s)[i]

\* C38: whenever rtt_values_mutex is not held the seven per-class containers
\* have the same key set, and get_rtt returns true exactly for the classes
\* that have counters and a last_seen stamp.
C38_SameKeys ==
    RttUnlocked =>
        /\ \A i \in 1..7 : KeySet(rtt, i) = rtt.received_ids
        /\ \A id \in RttIds :
              get_rtt(id).found <=>
                  /\ id \in DOMAIN rtt.measure_count
                  /\ id \in DOMAIN rtt.missed_answers
                  /\ id \in DOMAIN rtt.last_msg_timestamp

\* C38 witness: with the mutex free, a class that was evicted has an entry
\* again in all seven containers after three rounds.
C38_Witness ==
    /\ RttUnlocked
    /\ "vehicle" \in DOMAIN rtt.evictedWorst
    /\ rtt.rounds = 3
    /\ \A i \in 1..7 : "vehicle" \in KeySet(rtt, i)
    /\ get_rtt("vehicle").found

(* ------------- the round without a response (SpecRtt) ------------------ *)

\* C39: when a round closes without a response of an existing class whose
\* last_seen is at most the timeout old, current_best and current_worst of the
\* entry are set to 0, measured and missed are each incremented by one, and
\* all_time_worst and last_seen are left unchanged.
C39_MissedRound ==
    [][ RoundClosed =>
          \A id \in rtt.received_ids \ DOMAIN rtt.round :
              rtt.now - rtt.last_msg_timestamp[id] <= delete_entry_timeout_ns =>
                  /\ rtt'.current_best_rtt[id] = 0
                  /\ rtt'.current_worst_rtt[id] = 0
                  /\ rtt'.measure_count[id] = rtt.measure_count[id] + 1
                  /\ rtt'.missed_answers[id] = rtt.missed_answers[id] + 1
                  /\ rtt'.all_time_worst_rtt[id] = rtt.all_time_worst_rtt[id]
                  /\ rtt'.last_msg_timestamp[id] = rtt.last_msg_timestamp[id]
                  /\ id \in rtt'.received_ids ]_vars

\* C39 witness: the entry of a class after a response and one round without
\* one, closed while last_seen was younger than the timeout.
C39_Witness ==
    /\ "vehicle" \in rtt.received_ids
    /\ rtt.wpc = "loop"
    /\ rtt.rounds = 2
    /\ rtt.round = EmptyMap
    /\ rtt.measure_count["vehicle"] = 2
    /\ rtt.missed_answers["vehicle"] = 1
    /\ rtt.current_best_rtt["vehicle"] = 0
    /\ rtt.current_worst_rtt["vehicle"] = 0
    /\ rtt.all_time_worst_rtt["vehicle"] = MaxRtt
    /\ rtt.last_msg_timestamp["vehicle"] < rtt.now

====
